---------------------------- MODULE Spec2Model ----------------------------
(***************************************************************************)
(* Model of the interview orchestration core of ba_interview_agent:        *)
(* the subject planner, the tolerant parsers of LLM responses, the         *)
(* structured-summary extractor, the AS-IS / TO-BE confirmation steps and  *)
(* the review convergence loop (src/ba_interview_agent/interview_agent.py, *)
(* spec_review_agent.py, as_is_agent.py, to_be_agent.py).                  *)
(*                                                                         *)
(* A text is a sequence of one-character strings.  An LLM response is a    *)
(* text over a small alphabet in which a JSON object member is one symbol. *)
(*                                                                         *)
(* Four specifications share the variables:                                *)
(*   SpecPlanner  the question loop of an interview (kickoff, decisions,   *)
(*                recorded answers, termination);                          *)
(*   SpecParse    the two response parsers applied to every short text;    *)
(*   Spec         the first call of _produce_reviewed_specification with   *)
(*                any summary model, reviewer and confirmation outcome;    *)
(*   SpecConfirm  run_interview from the first draft to the closing        *)
(*                prompt and the second call, with drafts that parse and a *)
(*                reviewer that accepts, and finalize_current_summary      *)
(*                called again on the delivered draft.                     *)
(***************************************************************************)
EXTENDS Integers, Sequences, FiniteSets, TLC

VARIABLES
    \* ---- configuration (AppSettings), fixed at construction
    subject_max_questions,      \* settings.subject_max_questions
    review_max_passes,          \* settings.review_max_passes
    \* ---- BusinessAnalystInterviewAgent: subject planner
    subject_question_counts,    \* _subject_question_counts
    subjects_completed,         \* _subjects_completed
    current_subject_idx,        \* _current_subject_idx
    pending_subject_index,      \* _pending_subject_index  (NoIndex = None)
    active_subject_index,       \* _active_subject_index   (NoIndex = None)
    \* ---- InterviewTranscript
    turns,                      \* _transcript.turns
    initial_user_prompt,        \* _transcript.initial_user_prompt is set
    \* ---- position of the interview driver (run_interview main loop)
    ipc,                        \* "new" | "await_decision" | "returned" | "asked" | "none" | "raised" | "off"
    question_out,               \* value returned by kickoff()/next_question()
    \* ---- history variables of the interview
    surfaced,                   \* number of questions returned so far
    all_ask,                    \* every decision so far had a question and subject_complete = false
    \* ---- pure-function harness
    raw_in,                     \* input handed to the function: a response text, or a pair of values
    parse_out,                  \* outcome of the function, or NotRun
    \* ---- BusinessAnalystInterviewAgent: summary and confirmations
    summarization_corrections,  \* _summarization_corrections
    approved_items,             \* _approved_as_is_items / _approved_future_state_items
    approved_processes,         \* _approved_as_is_processes / _approved_future_state_processes
    confirmed_turns,            \* _as_is_confirmed_turns / _future_state_confirmed_turns
    signature,                  \* _as_is_signature / _future_state_signature
    latest_summary_data,        \* _latest_summary_data
    latest_spec_markdown,       \* _latest_spec_markdown
    \* ---- _produce_reviewed_specification: position and locals
    rpc,                        \* "idle" | "await_summary" | "await_review" | "await_answer" | "await_derive" | "await_confirm" | "returned" | "raised" | "cancelled" | "off"
    attempt_count,
    seen_signatures,
    review_warnings,
    spec_text_local,
    review,
    follow_ups,                 \* follow-up questions still to be asked in this pass
    \* ---- summarize(): locals and the prompt of the LLM call in flight
    attempts,
    retry_note,
    summarization_prompt,
    \* ---- the confirmation step in progress: its kind and locals
    cf,
    \* ---- history variables of the review loop and of finalization
    hist,
    fin,
    \* ---- BusinessAnalystAGUIAgent: one conversation thread and its requests
    thread_session,             \* _sessions.get(thread): 0 = None, else a session of `sessions`
    sessions,                   \* the BusinessAnalystSession objects created so far
    requests,                   \* the run_stream calls on the thread: position and locals
    \* ---- BusinessAnalystAGUIAgent: the registry of sessions by thread key
    registry,
    \* ---- one BusinessAnalystSession and the handle_user_message calls on it
    bas

vars == << subject_max_questions, review_max_passes,
           subject_question_counts, subjects_completed, current_subject_idx,
           pending_subject_index, active_subject_index,
           turns, initial_user_prompt, ipc, question_out,
           surfaced, all_ask,
           raw_in, parse_out,
           summarization_corrections, approved_items, approved_processes,
           confirmed_turns, signature, latest_summary_data, latest_spec_markdown,
           rpc, attempt_count, seen_signatures, review_warnings, spec_text_local,
           review, follow_ups, attempts, retry_note, summarization_prompt,
           cf, hist, fin,
           thread_session, sessions, requests, registry, bas >>

configVars == << subject_max_questions, review_max_passes >>
plannerVars == << subject_question_counts, subjects_completed, current_subject_idx,
                  pending_subject_index, active_subject_index >>
interviewVars == << initial_user_prompt, ipc, question_out, surfaced, all_ask >>
parseVars == << raw_in, parse_out >>
aguiVars == << thread_session, sessions, requests, registry, bas >>
approvalVars == << approved_items, approved_processes, confirmed_turns, signature >>
summaryVars == << latest_summary_data, latest_spec_markdown >>
loopVars == << attempt_count, seen_signatures, review_warnings, review, follow_ups >>
summarizeVars == << attempts, retry_note, summarization_prompt >>
reviewVars == << summarization_corrections, approvalVars, summaryVars, rpc,
                 loopVars, spec_text_local, summarizeVars, cf, hist, fin >>

-----------------------------------------------------------------------------
(* Bounds of the model                                                     *)

NumSubjects == 3
MaxCap == 2
MaxPasses == 2
NumRequests == 2        \* run_stream requests on the conversation thread
MaxMessages == 3        \* messages handed to the chat transport
MaxLen == 4

-----------------------------------------------------------------------------
(* Texts                                                                   *)

NoIndex == -1
NotRun == [kind |-> "not_run"]

IsSpace(c) == c \in {" ", "\n"}

RECURSIVE LStrip(_)
LStrip(t) ==
    IF t = << >> THEN t
    ELSE IF IsSpace(Head(t)) THEN LStrip(Tail(t)) ELSE t

RECURSIVE RStrip(_)
RStrip(t) ==
    IF t = << >> THEN t
    ELSE IF IsSpace(t[Len(t)]) THEN RStrip(SubSeq(t, 1, Len(t) - 1)) ELSE t

\* str.strip()
Strip(t) == RStrip(LStrip(t))

\* str.find(c): 0-based index of the first occurrence, -1 when absent
Find(t, c) ==
    IF \E i \in 1..Len(t) : t[i] = c
    THEN (CHOOSE i \in 1..Len(t) : t[i] = c /\ \A j \in 1..(i - 1) : t[j] # c) - 1
    ELSE -1

\* str.rfind(c): 0-based index of the last occurrence, -1 when absent
RFind(t, c) ==
    IF \E i \in 1..Len(t) : t[i] = c
    THEN (CHOOSE i \in 1..Len(t) : t[i] = c /\ \A j \in (i + 1)..Len(t) : t[j] # c) - 1
    ELSE -1

\* text[start:end + 1] with 0-based start and end
Slice(t, start, end) == SubSeq(t, start + 1, end + 1)

StartsWithBrace(t) == t # << >> /\ Head(t) = "{"

-----------------------------------------------------------------------------
(* JSON decoding of a response text.  Symbols: " " whitespace, "w" prose,  *)
(* "{" "}" "," punctuation, "7" a JSON scalar literal, and one symbol per  *)
(* object member (a "key": value pair).                                    *)

NoSpace(c) == ~IsSpace(c)

\* the member symbols.  Question decision: "Q" is "question": "q", "T" is
\* "subject_complete": true.  Reviewer: "A" all_subjects_present: true,
\* "V" table_valid: true, "M" missing_subjects: ["1"], "B" table_feedback: "b",
\* "F" feedback_for_interviewer: "f", "U" follow_up_questions with one
\* question "u" on subject "1", "G" follow_up_questions with one question "g"
\* without a subject, "W" follow_up_questions with the two questions "u" on
\* subject "1" and "g" without a subject.  Summary: "I" current_state: ["i"], "P" current_processes
\* with one process "p" that has a happy step, "N" current_processes with one
\* process "n" without steps, "J" future_state: ["j"], "R" future_processes
\* with one process "r" that has a happy step, "O" future_processes with one
\* process "o" without steps; "L" is "title": "X"; "S" holds the string
\* fields project_overview: " s ", project_objective: "  ",
\* functional_overview: 7 and scope: {overview: "v", in_scope: "c"}; "K" holds
\* the other list fields personas: [{description: "k"}],
\* non_functional_requirements: ["k", " "], assumptions: "k", risks: [" "],
\* open_issues: 7 and functional_requirements: [{description: "k"}, "e",
\* {business_rules: "b"}].  Derivation: "D" the items key: ["d"],
\* "E" the processes key with one process "e" that has a happy step.
DecisionMembers == {"Q", "T"}
ReviewMembers == {"A", "V", "M", "B", "F", "U", "G", "W"}
SummaryMembers == {"I", "P", "N", "J", "R", "O", "L", "S", "K"}
DerivationMembers == {"D", "E"}
JsonMembers == DecisionMembers \cup ReviewMembers \cup SummaryMembers \cup DerivationMembers

\* the comma-separated member list between the braces of an object
IsMemberList(body) ==
    \/ body = << >>
    \/ /\ Len(body) % 2 = 1
       /\ \A i \in 1..Len(body) :
             IF i % 2 = 1 THEN body[i] \in JsonMembers ELSE body[i] = ","

\* json.loads(candidate): an object (its members), a non-object value, or
\* json.JSONDecodeError
JsonLoads(candidate) ==
    LET s == Strip(candidate)
        body == SelectSeq(SubSeq(s, 2, Len(s) - 1), NoSpace)
    IN  IF s # << >> /\ \A i \in 1..Len(s) : s[i] = "7"
        THEN [kind |-> "scalar", members |-> {}]
        ELSE IF /\ Len(s) >= 2
                /\ s[1] = "{"
                /\ s[Len(s)] = "}"
                /\ IsMemberList(body)
        THEN [kind |-> "object", members |-> {body[i] : i \in 1..Len(body)} \ {","}]
        ELSE [kind |-> "error", members |-> {}]

\* the tolerant choice of the JSON candidate shared by the parsers that go on
\* to json.loads even when no brace pair is found
JsonCandidate(text) ==
    IF StartsWithBrace(LStrip(text)) THEN text
    ELSE LET start == Find(text, "{")
             end == RFind(text, "}")
         IN  IF start # -1 /\ end # -1 /\ end > start
             THEN Slice(text, start, end)
             ELSE text

-----------------------------------------------------------------------------
(* QuestionDecisionProtocol                                                *)


QuestionDecision(q, c) == [kind |-> "decision", question |-> q, subject_complete |-> c]
Raised(e) == [kind |-> "raised", error |-> e]

\* mutant: an undecodable response is taken as "subject complete"
ParseDecisionFallbackComplete(raw) ==
    LET text == Strip(raw)
        data == JsonLoads(JsonCandidate(text))
    IN  IF text = << >> THEN QuestionDecision(<< >>, TRUE)
        ELSE IF data.kind = "error" THEN QuestionDecision(<< >>, TRUE)
        ELSE IF data.kind # "object" THEN Raised("AttributeError")
        ELSE QuestionDecision(
                 Strip(IF "Q" \in data.members THEN <<"q">> ELSE << >>),
                 "T" \in data.members)

_parse_question_decision(raw) ==
    LET text == Strip(raw)
        data == JsonLoads(JsonCandidate(text))
    IN  IF text = << >> THEN QuestionDecision(<< >>, TRUE)
        ELSE IF data.kind = "error" THEN QuestionDecision(text, FALSE)
        ELSE IF data.kind # "object" THEN Raised("AttributeError")
        ELSE QuestionDecision(
                 Strip(IF "Q" \in data.members THEN <<"q">> ELSE << >>),
                 "T" \in data.members)

-----------------------------------------------------------------------------
(* SubjectPlanner                                                          *)

Subjects == 0..(NumSubjects - 1)

\* the subject names of SUBJECT_PLAN, in plan order
SUBJECT_PLAN == [i \in Subjects |-> << ToString(i) >>]

\* the planner fields of the agent as one record
Planner == [counts |-> subject_question_counts,
            completed |-> subjects_completed,
            cur |-> current_subject_idx,
            active |-> active_subject_index]

RECURSIVE NextOpenIndex(_, _)
NextOpenIndex(completed, idx) ==
    IF idx < NumSubjects /\ completed[idx]
    THEN NextOpenIndex(completed, idx + 1)
    ELSE idx

\* mutant: the subject after the current one is skipped without a look at
\* its completion flag
AdvanceSubjectSkippingOne(p) ==
    [p EXCEPT !.cur = IF p.cur + 2 <= NumSubjects THEN p.cur + 2 ELSE NumSubjects,
              !.active = NoIndex]

_advance_subject(p) ==
    [p EXCEPT !.cur = NextOpenIndex(p.completed, p.cur + 1),
              !.active = NoIndex]

\* mutant: completing a subject reopens the one before it
MarkSubjectCompleteReopening(p, index) ==
    IF index < 0 \/ index >= NumSubjects THEN p
    ELSE LET marked == [p EXCEPT !.completed =
                            [i \in Subjects |-> IF i = index THEN TRUE
                                                ELSE IF i = index - 1 THEN FALSE
                                                ELSE p.completed[i]]]
         IN  IF index = p.cur THEN _advance_subject(marked) ELSE marked

_mark_subject_complete(p, index) ==
    IF index < 0 \/ index >= NumSubjects THEN p
    ELSE LET marked == [p EXCEPT !.completed[index] = TRUE]
         IN  IF index = p.cur THEN _advance_subject(marked) ELSE marked

_mark_current_subject_complete(p) == _mark_subject_complete(p, p.cur)

_handle_post_answer(p) ==
    IF p.active = NoIndex THEN p
    ELSE LET q == IF p.counts[p.active] >= subject_max_questions
                  THEN _mark_subject_complete(p, p.active)
                  ELSE p
         IN  [q EXCEPT !.active = NoIndex]

\* mutant: every entry into the selection loop moves on to the next subject
GenerateUntilAwaitAdvancing(p) ==
    IF p.cur >= NumSubjects THEN p ELSE _advance_subject(p)

\* _generate_next_question from the top of its loop up to the point where it
\* returns None (cur = NumSubjects) or awaits the LLM decision
RECURSIVE GenerateUntilAwait(_)
GenerateUntilAwait(p) ==
    IF p.cur >= NumSubjects THEN p
    ELSE IF p.completed[p.cur] THEN GenerateUntilAwait(_advance_subject(p))
    ELSE IF p.counts[p.cur] >= subject_max_questions
    THEN GenerateUntilAwait(_mark_current_subject_complete(p))
    ELSE p

\* mutant: a surfaced question does not become the active one
GenerateAfterDecisionNotActive(p, decision) ==
    IF Strip(decision.question) = << >>
    THEN GenerateUntilAwait(_mark_current_subject_complete(p))
    ELSE [p EXCEPT !.counts[p.cur] = @ + 1]

\* mutant: an empty question leaves the subject open
GenerateAfterDecisionLeavingOpen(p, decision) ==
    IF Strip(decision.question) = << >>
    THEN p
    ELSE [p EXCEPT !.counts[p.cur] = @ + 1, !.active = p.cur]

\* mutant: a surfaced question is counted twice
GenerateAfterDecisionCountedTwice(p, decision) ==
    IF Strip(decision.question) = << >>
    THEN GenerateUntilAwait(_mark_current_subject_complete(p))
    ELSE [p EXCEPT !.counts[p.cur] = @ + 2, !.active = p.cur]

\* mutant: a surfaced question is not counted
GenerateAfterDecisionUncounted(p, decision) ==
    IF Strip(decision.question) = << >>
    THEN GenerateUntilAwait(_mark_current_subject_complete(p))
    ELSE [p EXCEPT !.active = p.cur]

\* mutant: a surfaced question sets the counter of its subject to one
GenerateAfterDecisionCountingOnce(p, decision) ==
    IF Strip(decision.question) = << >>
    THEN GenerateUntilAwait(_mark_current_subject_complete(p))
    ELSE [p EXCEPT !.counts[p.cur] = 1, !.active = p.cur]

\* mutant: a decision that says subject_complete completes the subject even
\* when it carries a question
GenerateAfterDecisionTrustingFlag(p, decision) ==
    IF Strip(decision.question) = << >>
    THEN GenerateUntilAwait(_mark_current_subject_complete(p))
    ELSE IF decision.subject_complete
    THEN _mark_current_subject_complete([p EXCEPT !.counts[p.cur] = @ + 1])
    ELSE [p EXCEPT !.counts[p.cur] = @ + 1, !.active = p.cur]

\* _generate_next_question after the decision has arrived: an empty question
\* completes the subject and the loop goes on; a question is counted
GenerateAfterDecision(p, decision) ==
    IF Strip(decision.question) = << >>
    THEN GenerateUntilAwait(_mark_current_subject_complete(p))
    ELSE [p EXCEPT !.counts[p.cur] = @ + 1, !.active = p.cur]

SetPlanner(p) ==
    /\ subject_question_counts' = p.counts
    /\ subjects_completed' = p.completed
    /\ current_subject_idx' = p.cur
    /\ active_subject_index' = p.active

\* responses of the model to a question-decision request
DecisionResponses ==
    { << >>, <<"w">>, <<"{", "}">>, <<"{", "Q", "}">>, <<"{", "T", "}">>,
      <<"{", "Q", ",", "T", "}">>, <<"w", "{", "Q", "}">>, <<"7">> }

Answers == { <<"a">> }

\* kickoff(): sets the initial prompt and enters _generate_next_question
Kickoff ==
    /\ ipc = "new"
    /\ initial_user_prompt' = TRUE
    /\ LET p == GenerateUntilAwait(Planner)
       IN  /\ SetPlanner(p)
           /\ ipc' = IF p.cur >= NumSubjects THEN "raised" ELSE "await_decision"
    /\ UNCHANGED << aguiVars, configVars, pending_subject_index, turns, question_out,
                    surfaced, all_ask, parseVars, reviewVars >>

\* the awaited chat completion returns inside _request_question_decision
DecisionArrives ==
    /\ ipc = "await_decision"
    /\ \E raw \in DecisionResponses :
         LET decision == _parse_question_decision(raw)
         IN  IF decision.kind = "raised"
             THEN /\ ipc' = "raised"
                  /\ all_ask' = FALSE
                  /\ UNCHANGED << plannerVars, question_out, surfaced >>
             ELSE LET p == GenerateAfterDecision(Planner, decision)
                      asked == Strip(decision.question) # << >>
                  IN  /\ SetPlanner(p)
                      /\ all_ask' = (all_ask /\ asked /\ ~decision.subject_complete)
                      /\ IF asked
                         THEN /\ pending_subject_index' = current_subject_idx
                              /\ question_out' = Strip(decision.question)
                              /\ surfaced' = surfaced + 1
                              /\ ipc' = "returned"
                         ELSE /\ UNCHANGED << pending_subject_index, question_out,
                                              surfaced >>
                              /\ ipc' = IF p.cur >= NumSubjects
                                        THEN "none" ELSE "await_decision"
    /\ UNCHANGED << aguiVars, configVars, turns, initial_user_prompt, parseVars, reviewVars >>

InterviewTurn(q, a, s) == [question |-> q, answer |-> a, subject |-> s]

\* mutant: the new turn is put in front of the transcript
RecordQuestionInFront ==
    /\ ipc = "returned"
    /\ turns' = << InterviewTurn(question_out, << >>,
                                 IF pending_subject_index # NoIndex
                                 THEN SUBJECT_PLAN[pending_subject_index]
                                 ELSE << >>) >> \o turns
    /\ pending_subject_index' = NoIndex
    /\ ipc' = "asked"
    /\ UNCHANGED << aguiVars, configVars, subject_question_counts, subjects_completed,
                    current_subject_idx, active_subject_index,
                    initial_user_prompt, question_out, surfaced, all_ask,
                    parseVars, reviewVars >>

\* record_question(question) by the driver, right after a question was returned
RecordQuestion ==
    /\ ipc = "returned"
    /\ turns' = Append(turns,
                       InterviewTurn(question_out, << >>,
                                     IF pending_subject_index # NoIndex
                                     THEN SUBJECT_PLAN[pending_subject_index]
                                     ELSE << >>))
    /\ pending_subject_index' = NoIndex
    /\ ipc' = "asked"
    /\ UNCHANGED << aguiVars, configVars, subject_question_counts, subjects_completed,
                    current_subject_idx, active_subject_index,
                    initial_user_prompt, question_out, surfaced, all_ask,
                    parseVars, reviewVars >>

\* next_question(latest_answer), with one of `answers`
NextQuestionFrom(answers) ==
    /\ ipc = "asked"
    /\ turns # << >>
    /\ \E answer \in answers :
         turns' = [turns EXCEPT ![Len(turns)].answer = answer]
    /\ LET p == GenerateUntilAwait(_handle_post_answer(Planner))
       IN  /\ SetPlanner(p)
           /\ ipc' = IF p.cur >= NumSubjects THEN "none" ELSE "await_decision"
    /\ UNCHANGED << aguiVars, configVars, pending_subject_index, initial_user_prompt,
                    question_out, surfaced, all_ask, parseVars, reviewVars >>

NextQuestion == NextQuestionFrom(Answers)

\* the stakeholder types a termination token: the question loop is left
StopInterview ==
    /\ ipc = "asked"
    /\ ipc' = "off"
    /\ UNCHANGED << aguiVars, configVars, plannerVars, turns, initial_user_prompt,
                    question_out, surfaced, all_ask, parseVars, reviewVars >>

-----------------------------------------------------------------------------
(* Reviewer: SpecificationReview and the parser of the reviewer's response *)

None == <<"None">>

\* fixed messages of ReviewerLanguageConfig, one symbol each
fallback_no_content_table == <<"fallback_no_content_table">>
fallback_no_content_feedback == <<"fallback_no_content_feedback">>
fallback_parse_error == <<"fallback_parse_error">>
fallback_feedback_missing_subjects == <<"fallback_feedback_missing_subjects">>
fallback_feedback_table_invalid == <<"fallback_feedback_table_invalid">>
fallback_feedback_follow_up == <<"fallback_feedback_follow_up">>
fallback_feedback_success == <<"fallback_feedback_success">>

FollowUpQuestion(q, s, r) == [question |-> q, subject |-> s, reason |-> r]

SpecificationReview(all, missing, valid, tfeedback, followups, feedback) ==
    [kind |-> "review",
     all_subjects_present |-> all,
     missing_subjects |-> missing,
     table_valid |-> valid,
     table_feedback |-> tfeedback,
     follow_up_questions |-> followups,
     feedback_for_interviewer |-> feedback,
     \* language = self._language; the reviewer of the model runs in "en"
     language |-> "en"]

\* the reviewer agent's self._subjects, in plan order
ReviewerSubjects == [i \in 1..NumSubjects |-> SUBJECT_PLAN[i - 1]]

_parse_response(raw) ==
    LET text == Strip(raw)
        data == JsonLoads(JsonCandidate(text))
        m == data.members
        all == "A" \in m
        valid == "V" \in m
        \* the later of two follow_up_questions keys would win; the model
        \* lets "W" win over "U" and "U" over "G"
        followups == IF "W" \in m THEN << FollowUpQuestion(<<"u">>, <<"1">>, None),
                                          FollowUpQuestion(<<"g">>, None, None) >>
                     ELSE IF "U" \in m THEN << FollowUpQuestion(<<"u">>, <<"1">>, None) >>
                     ELSE IF "G" \in m THEN << FollowUpQuestion(<<"g">>, None, None) >>
                     ELSE << >>
        given == IF "F" \in m THEN <<"f">> ELSE << >>
        feedback == IF given # << >> THEN given
                    ELSE IF ~all THEN fallback_feedback_missing_subjects
                    ELSE IF ~valid THEN fallback_feedback_table_invalid
                    ELSE IF followups # << >> THEN fallback_feedback_follow_up
                    ELSE fallback_feedback_success
    IN  IF text = << >>
        THEN SpecificationReview(FALSE, ReviewerSubjects, FALSE,
                                 fallback_no_content_table, << >>,
                                 fallback_no_content_feedback)
        ELSE IF data.kind = "error"
        THEN SpecificationReview(FALSE, ReviewerSubjects, FALSE,
                                 fallback_parse_error, << >>, text)
        ELSE IF data.kind # "object" THEN Raised("AttributeError")
        ELSE SpecificationReview(all,
                                 IF "M" \in m THEN << <<"1">> >> ELSE << >>,
                                 valid,
                                 IF "B" \in m THEN <<"b">> ELSE << >>,
                                 followups, feedback)

-----------------------------------------------------------------------------
(* StructuredSummaryExtractor: payload, normalization, rendering.  The     *)
(* model keeps the four fields of the summary that the confirmation steps  *)
(* read and write; the other fields are not touched by them.               *)

SUMMARY_MAX_ATTEMPTS == 3

PendingClarification == <<"Pending clarification.">>
ProcessPlaceholderName == <<"Process detail pending clarification.">>
FutureProcessPlaceholderName == <<"Future process detail pending clarification.">>
FutureFallbackStep == <<"Future-state steps pending definition.">>
NoFallbackStep == None

Kinds == {"as_is", "to_be"}
ItemsKey(kind) == IF kind = "as_is" THEN "current_state" ELSE "future_state"
ProcessesKey(kind) == IF kind = "as_is" THEN "current_processes" ELSE "future_processes"

Process(name, happy, unhappy) ==
    [name |-> name, happy_path |-> happy, unhappy_path |-> unhappy]

NonEmpty(t) == t # << >>

StripAll(texts) == [i \in 1..Len(texts) |-> Strip(texts[i])]

\* str.replace("|", "/").replace("\n", " ")
ReplacePipeAndNewline(t) ==
    [i \in 1..Len(t) |-> IF t[i] = "|" THEN "/" ELSE IF t[i] = "\n" THEN " " ELSE t[i]]

\* str.replace("|", "/")
ReplacePipe(t) == [i \in 1..Len(t) |-> IF t[i] = "|" THEN "/" ELSE t[i]]

\* _sanitize_process_steps on a list of steps
_sanitize_process_steps(raw_steps) ==
    LET kept == SelectSeq(StripAll(raw_steps), NonEmpty)
    IN  [i \in 1..Len(kept) |-> ReplacePipeAndNewline(kept[i])]

\* mutant: an empty list of strings is left empty
SanitizeStringListNoDefault(value, default) ==
    SelectSeq(StripAll(value), NonEmpty)

\* _sanitize_string_list on a list, with its default
_sanitize_string_list(value, default) ==
    LET items == SelectSeq(StripAll(value), NonEmpty)
    IN  IF items = << >> THEN default ELSE items

\* the values the summary members carry
PayloadItems(m, kind) ==
    IF kind = "as_is"
    THEN IF "I" \in m THEN << <<"i">> >> ELSE << >>
    ELSE IF "J" \in m THEN << <<"j">> >> ELSE << >>

PayloadProcesses(m, kind) ==
    IF kind = "as_is"
    THEN IF "P" \in m THEN << Process(<<"p">>, << <<"h">> >>, << >>) >>
         ELSE IF "N" \in m THEN << Process(<<"n">>, << >>, << >>) >>
         ELSE << >>
    ELSE IF "R" \in m THEN << Process(<<"r">>, << <<"h">> >>, << >>) >>
         ELSE IF "O" \in m THEN << Process(<<"o">>, << >>, << >>) >>
         ELSE << >>

\* the process loops of _normalize_structured_summary: an entry is dropped
\* only when its name and both step lists are empty
RECURSIVE NormalizeProcesses(_, _)
NormalizeProcesses(entries, placeholder) ==
    IF entries = << >> THEN << >>
    ELSE LET entry == Head(entries)
             name == Strip(entry.name)
             happy == _sanitize_process_steps(entry.happy_path)
             unhappy == _sanitize_process_steps(entry.unhappy_path)
             rest == NormalizeProcesses(Tail(entries), placeholder)
         IN  IF name = << >> /\ happy = << >> /\ unhappy = << >>
             THEN rest
             ELSE << Process(IF name = << >> THEN placeholder ELSE name,
                             happy, unhappy) >> \o rest

\* _to_clean_string: None gives "", any other value its stripped text
_to_clean_string(value) == IF value = None THEN << >> ELSE Strip(value)

\* Python's `text or default`
OrDefault(text, default) == IF text = << >> THEN default ELSE text

\* payload.get(key) for the string fields, None when the key is absent; the
\* number 7 is given as the text str() makes of it
PayloadText(m, key) ==
    CASE key = "title" -> IF "L" \in m THEN <<"X">> ELSE None
      [] key = "project_overview" -> IF "S" \in m THEN <<" ", "s", " ">> ELSE None
      [] key = "project_objective" -> IF "S" \in m THEN <<" ", " ">> ELSE None
      [] key = "functional_overview" -> IF "S" \in m THEN <<"7">> ELSE None
      [] key = "scope.overview" -> IF "S" \in m THEN <<"v">> ELSE None
      [] key = "scope.in_scope" -> IF "S" \in m THEN <<"c">> ELSE None
      [] OTHER -> None

\* payload.get(key) for the lists of strings: a string value is given as the
\* one-element list, a value that is neither a list nor a string as the
\* empty list (_sanitize_string_list treats them alike)
PayloadList(m, key) ==
    CASE key = "non_functional_requirements" /\ "K" \in m -> << <<"k">>, <<" ">> >>
      [] key = "assumptions" /\ "K" \in m -> << <<"k">> >>
      [] key = "risks" /\ "K" \in m -> << <<" ">> >>
      [] OTHER -> << >>

\* the dict entries of payload.get("personas")
PayloadPersonas(m) ==
    IF "K" \in m THEN << [name |-> None, description |-> <<"k">>] >> ELSE << >>

\* the entries of payload.get("functional_requirements"); a bare string is
\* given as its description with no business rules
PayloadRequirements(m) ==
    IF "K" \in m
    THEN << [description |-> <<"k">>, business_rules |-> None],
            [description |-> <<"e">>, business_rules |-> None],
            [description |-> None, business_rules |-> <<"b">>] >>
    ELSE << >>

\* the personas loop and its default
NormalizePersonas(entries) ==
    IF entries = << >>
    THEN << [name |-> <<"Stakeholder">>, description |-> PendingClarification] >>
    ELSE [i \in 1..Len(entries) |->
            [name |-> OrDefault(_to_clean_string(entries[i].name), <<"Stakeholder">>),
             description |-> OrDefault(_to_clean_string(entries[i].description),
                                       PendingClarification)]]

\* mutant: no requirement is substituted when none is described
NormalizeRequirementsNoDefault(entries) ==
    LET Described(e) == _to_clean_string(e.description) # << >>
        kept == SelectSeq(entries, Described)
    IN  [i \in 1..Len(kept) |->
            [description |-> _to_clean_string(kept[i].description),
             business_rules |->
                 OrDefault(_to_clean_string(kept[i].business_rules),
                           <<"Define validation steps and data dependencies.">>)]]

\* the functional_requirements loop and its default
NormalizeRequirements(entries) ==
    LET Described(e) == _to_clean_string(e.description) # << >>
        kept == SelectSeq(entries, Described)
    IN  IF kept = << >>
        THEN << [description |-> <<"Functional requirement pending clarification.">>,
                 business_rules |->
                     <<"Detail validation expectations and data dependencies once confirmed.">>] >>
        ELSE [i \in 1..Len(kept) |->
                [description |-> _to_clean_string(kept[i].description),
                 business_rules |->
                     OrDefault(_to_clean_string(kept[i].business_rules),
                               <<"Define validation steps and data dependencies.">>)]]

_normalize_structured_summary(m) ==
    [title |-> OrDefault(_to_clean_string(PayloadText(m, "title")),
                         <<"Untitled Initiative">>),
     project_overview |->
         OrDefault(_to_clean_string(PayloadText(m, "project_overview")),
                   PendingClarification),
     project_objective |->
         OrDefault(_to_clean_string(PayloadText(m, "project_objective")),
                   PendingClarification),
     scope_overview |-> _to_clean_string(PayloadText(m, "scope.overview")),
     scope_in_scope |->
         OrDefault(_to_clean_string(PayloadText(m, "scope.in_scope")),
                   PendingClarification),
     scope_out_of_scope |->
         OrDefault(_to_clean_string(PayloadText(m, "scope.out_of_scope")),
                   PendingClarification),
     personas |-> NormalizePersonas(PayloadPersonas(m)),
     functional_overview |->
         OrDefault(_to_clean_string(PayloadText(m, "functional_overview")),
                   PendingClarification),
     non_functional_requirements |->
         _sanitize_string_list(PayloadList(m, "non_functional_requirements"),
                               << PendingClarification >>),
     assumptions |->
         _sanitize_string_list(PayloadList(m, "assumptions"), << PendingClarification >>),
     risks |-> _sanitize_string_list(PayloadList(m, "risks"), << PendingClarification >>),
     open_issues |->
         _sanitize_string_list(PayloadList(m, "open_issues"), << PendingClarification >>),
     functional_requirements |-> NormalizeRequirements(PayloadRequirements(m)),
     current_state |->
         _sanitize_string_list(PayloadItems(m, "as_is"), << PendingClarification >>),
     current_processes |->
         NormalizeProcesses(PayloadProcesses(m, "as_is"), ProcessPlaceholderName),
     future_state |->
         _sanitize_string_list(PayloadItems(m, "to_be"), << PendingClarification >>),
     future_processes |->
         NormalizeProcesses(PayloadProcesses(m, "to_be"), FutureProcessPlaceholderName)]

NoData == [kind |-> "None"]

\* _extract_json_object: the payload members, or None
_extract_json_object(raw) ==
    LET text == Strip(raw)
        start == Find(text, "{")
        end == RFind(text, "}")
        braced == StartsWithBrace(LStrip(text))
        candidate == IF braced THEN text ELSE Slice(text, start, end)
        payload == JsonLoads(candidate)
    IN  IF text = << >> THEN NoData
        ELSE IF ~braced /\ (start = -1 \/ end = -1 \/ end <= start) THEN NoData
        ELSE IF payload.kind # "object" THEN NoData
        ELSE [kind |-> "object", members |-> payload.members]

_parse_structured_summary(raw) ==
    LET data == _extract_json_object(raw)
    IN  IF data = NoData THEN NoData
        ELSE _normalize_structured_summary(data.members)

\* mutant: an entry without steps is kept as it is
CoerceProcessesKeepingStepless(value, fallback_step) ==
    LET named == SelectSeq(value, LAMBDA entry : Strip(entry.name) # << >>)
    IN  [i \in 1..Len(named) |->
            Process(ReplacePipe(Strip(named[i].name)),
                    _sanitize_process_steps(named[i].happy_path),
                    _sanitize_process_steps(named[i].unhappy_path))]

\* _coerce_processes: entries without a name are dropped; entries without
\* steps are dropped, or get the fallback step when there is one
RECURSIVE _coerce_processes(_, _)
_coerce_processes(value, fallback_step) ==
    IF value = << >> THEN << >>
    ELSE LET entry == Head(value)
             name == Strip(entry.name)
             happy == _sanitize_process_steps(entry.happy_path)
             unhappy == _sanitize_process_steps(entry.unhappy_path)
             rest == _coerce_processes(Tail(value), fallback_step)
         IN  IF name = << >> THEN rest
             ELSE IF happy = << >> /\ unhappy = << >>
             THEN IF fallback_step = NoFallbackStep THEN rest
                  ELSE << Process(ReplacePipe(name), << fallback_step >>, unhappy) >>
                       \o rest
             ELSE << Process(ReplacePipe(name), happy, unhappy) >> \o rest

_coerce_as_is_processes(value) == _coerce_processes(value, NoFallbackStep)
_coerce_future_processes(value) == _coerce_processes(value, FutureFallbackStep)
CoerceFor(kind, value) ==
    IF kind = "as_is" THEN _coerce_as_is_processes(value)
    ELSE _coerce_future_processes(value)

\* _serialize_processes: one dict per process with the same three fields
_serialize_processes(processes) ==
    [i \in 1..Len(processes) |->
        [name |-> processes[i].name,
         happy_path |-> processes[i].happy_path,
         unhappy_path |-> processes[i].unhappy_path]]

\* _clean_table_cell: "|" is escaped, a newline becomes " <br> ", then strip
RECURSIVE EscapeCell(_)
EscapeCell(t) ==
    IF t = << >> THEN << >>
    ELSE (IF Head(t) = "|" THEN <<"\\|">>
          ELSE IF Head(t) = "\n" THEN <<" ", "<br>", " ">>
          ELSE << Head(t) >>) \o EscapeCell(Tail(t))

_clean_table_cell(value) == Strip(EscapeCell(value))

\* _render_structured_summary: the document, as the texts each of its
\* sections shows, in order (the titles of the model do not start with
\* "functional specification", so the header is always the prefixed one)
_render_structured_summary(data) ==
    [kind |-> "document",
     header |-> <<"## Functional Specification: ">> \o Strip(data.title),
     overview |-> << data.project_overview, data.project_objective >>,
     scope |-> (IF data.scope_overview = << >> THEN << >>
                ELSE << data.scope_overview >>)
               \o << data.scope_in_scope, data.scope_out_of_scope >>,
     personas |-> data.personas,
     functional_overview |-> << data.functional_overview >>,
     non_functional_requirements |-> data.non_functional_requirements,
     assumptions |-> data.assumptions,
     risks |-> data.risks,
     open_issues |-> data.open_issues,
     requirements_table |->
         [i \in 1..Len(data.functional_requirements) |->
             [id |-> <<"FR-", ToString(i)>>,
              description |->
                  _clean_table_cell(data.functional_requirements[i].description),
              rules |->
                  _clean_table_cell(data.functional_requirements[i].business_rules)]],
     current_state |-> data.current_state,
     current_processes |-> _coerce_as_is_processes(data.current_processes),
     future_state |-> data.future_state,
     future_processes |-> _coerce_future_processes(data.future_processes)]

RawMarkdown(text) == [kind |-> "raw", text |-> text]
NoMarkdown == [kind |-> "None"]

-----------------------------------------------------------------------------
(* ConfirmationMemoizer: signatures                                        *)

_process_signature(processes) ==
    [i \in 1..Len(processes) |->
        << Strip(processes[i].name),
           StripAll(processes[i].happy_path),
           StripAll(processes[i].unhappy_path) >>]

_items_signature(items) == StripAll(items)

\* mutant: the signature leaves the turn count out
SignatureWithoutTurnCount(turn_count, items, processes) ==
    << 0, _items_signature(items), _process_signature(processes) >>

_compose_process_summary_signature(turn_count, items, processes) ==
    << turn_count, _items_signature(items), _process_signature(processes) >>

_items_equivalent(first, second) == _items_signature(first) = _items_signature(second)

_processes_equivalent(first, second) ==
    _process_signature(first) = _process_signature(second)

-----------------------------------------------------------------------------
(* SpecificationReview: derived properties; reviewer feedback              *)

Absent == [some |-> FALSE]
Some(v) == [some |-> TRUE, value |-> v]

SetOf(seq) == {seq[i] : i \in 1..Len(seq)}

\* ", ".join(names)
RECURSIVE Join(_)
Join(names) ==
    IF names = << >> THEN << >>
    ELSE IF Len(names) = 1 THEN Head(names)
    ELSE Head(names) \o <<",", " ">> \o Join(Tail(names))

\* sorted(set(names)): the subject names of the model are the digits "0",
\* "1", ... in plan order, so the sorted order is the plan order
SortedSet(names) ==
    LET present(n) == n \in SetOf(names)
    IN  SelectSeq(ReviewerSubjects, present)

\* mutant: follow-up questions alone do not require follow-up
RequiresFollowUpIgnoringQuestions(r) ==
    \/ ~r.all_subjects_present
    \/ ~r.table_valid

requires_follow_up(r) ==
    \/ ~r.all_subjects_present
    \/ ~r.table_valid
    \/ r.follow_up_questions # << >>

\* mutant: the interviewer feedback is left out of the payload
FingerprintWithoutFeedback(r) ==
    [all_subjects_present |-> r.all_subjects_present,
     missing_subjects |-> SortedSet(r.missing_subjects),
     table_valid |-> r.table_valid,
     table_feedback |-> r.table_feedback,
     follow_up_questions |-> r.follow_up_questions]

\* json.dumps of the payload is one-to-one on the payload, so the payload
\* stands for the string; the language is not part of it
fingerprint(r) ==
    [all_subjects_present |-> r.all_subjects_present,
     missing_subjects |-> SortedSet(r.missing_subjects),
     table_valid |-> r.table_valid,
     table_feedback |-> r.table_feedback,
     follow_up_questions |-> r.follow_up_questions,
     feedback_for_interviewer |-> r.feedback_for_interviewer]

Truthy(t) == t # None /\ t # << >>

outstanding_table_generic == <<"outstanding_table_generic">>

FollowUpItem(f) ==
    LET detail == IF Truthy(f.reason)
                  THEN f.question \o <<" ", "(">> \o f.reason \o <<")">>
                  ELSE f.question
    IN  IF Truthy(f.subject)
        THEN <<"Follow up on '">> \o f.subject \o <<"': ">> \o detail
        ELSE <<"Follow up needed: ">> \o detail

\* mutant: the reviewer's feedback is not used when nothing else is open
OutstandingItemsWithoutFeedback(r) ==
    LET missing == IF r.missing_subjects # << >>
                   THEN << <<"Subjects still missing: ">>
                           \o Join(SortedSet(r.missing_subjects)) >>
                   ELSE << >>
        table == IF ~r.table_valid
                 THEN IF r.table_feedback # << >>
                      THEN << r.table_feedback >>
                      ELSE << outstanding_table_generic >>
                 ELSE << >>
        follow == [i \in 1..Len(r.follow_up_questions) |->
                      FollowUpItem(r.follow_up_questions[i])]
    IN  missing \o table \o follow

outstanding_items(r) ==
    LET missing == IF r.missing_subjects # << >>
                   THEN << <<"Subjects still missing: ">>
                           \o Join(SortedSet(r.missing_subjects)) >>
                   ELSE << >>
        table == IF ~r.table_valid
                 THEN IF r.table_feedback # << >>
                      THEN << r.table_feedback >>
                      ELSE << outstanding_table_generic >>
                 ELSE << >>
        follow == [i \in 1..Len(r.follow_up_questions) |->
                      FollowUpItem(r.follow_up_questions[i])]
        items == missing \o table \o follow
    IN  IF items = << >> /\ r.feedback_for_interviewer # << >>
        THEN << r.feedback_for_interviewer >>
        ELSE items

\* mutant: a new correction replaces the ones collected before
AddCorrectionReplacing(corrections, instruction) ==
    LET note == Strip(instruction)
    IN  IF note = << >> THEN corrections
        ELSE IF note \in SetOf(corrections) THEN corrections
        ELSE << note >>

\* mutant: a note is appended whether or not the list already holds it
AddCorrectionAgain(corrections, instruction) ==
    LET note == Strip(instruction)
    IN  IF note = << >> THEN corrections
        ELSE Append(corrections, note)

_add_summarization_correction(corrections, instruction) ==
    LET note == Strip(instruction)
    IN  IF note = << >> THEN corrections
        ELSE IF note \in SetOf(corrections) THEN corrections
        ELSE Append(corrections, note)

TableGuidance == <<"Ensure the 'Functional Requirements' table follows the format.">>

apply_review_feedback(corrections, r) ==
    LET first == IF r.missing_subjects # << >>
                 THEN _add_summarization_correction(
                          corrections,
                          <<"Ensure the specification explicitly addresses: ">>
                              \o Join(r.missing_subjects) \o <<".">>)
                 ELSE corrections
    IN  IF ~r.table_valid
        THEN _add_summarization_correction(
                 first,
                 IF r.table_feedback # << >> THEN Strip(r.table_feedback)
                 ELSE TableGuidance)
        ELSE first

\* the correction notes apply_review_feedback takes from a review: one for
\* the missing subjects, one for an invalid table; blank notes are dropped
CorrectionsOf(r) ==
    LET missing == IF r.missing_subjects # << >>
                   THEN { <<"Ensure the specification explicitly addresses: ">>
                              \o Join(r.missing_subjects) \o <<".">> }
                   ELSE {}
        table == IF r.table_valid THEN {}
                 ELSE IF r.table_feedback # << >> THEN { r.table_feedback }
                 ELSE { TableGuidance }
    IN  { Strip(n) : n \in { m \in missing \cup table : Strip(m) # << >> } }

\* _normalize_subject_name: the names of the model have no letters, so
\* lower() leaves them as they are
_normalize_subject_name(subject_name) ==
    IF subject_name = << >> THEN << >>
    ELSE IF \E i \in Subjects : SUBJECT_PLAN[i] = Strip(subject_name)
    THEN Strip(subject_name)
    ELSE subject_name

GenericFollowUp ==
    FollowUpQuestion(<<"Please share the additional details requested by the reviewer.">>,
                     None, None)

\* mutant: the pass cap is checked before the repeated fingerprint
LoopVerdictCapFirst(r, count, seen) ==
    IF ~requires_follow_up(r) THEN "accepted"
    ELSE IF count >= review_max_passes THEN "capped"
    ELSE IF fingerprint(r) \in seen THEN "repeated"
    ELSE "continue"

\* mutant: the pass cap is checked with > instead of >=
LoopVerdictLateCap(r, count, seen) ==
    IF ~requires_follow_up(r) THEN "accepted"
    ELSE IF fingerprint(r) \in seen THEN "repeated"
    ELSE IF count > review_max_passes THEN "capped"
    ELSE "continue"

\* mutant: a repeated fingerprint does not stop the loop
LoopVerdictNoRepeatCheck(r, count, seen) ==
    IF ~requires_follow_up(r) THEN "accepted"
    ELSE IF count >= review_max_passes THEN "capped"
    ELSE "continue"

\* the branch _produce_reviewed_specification takes once a review is in
LoopVerdict(r, count, seen) ==
    IF ~requires_follow_up(r) THEN "accepted"
    ELSE IF fingerprint(r) \in seen THEN "repeated"
    ELSE IF count >= review_max_passes THEN "capped"
    ELSE "continue"

-----------------------------------------------------------------------------
(* summarize()                                                             *)

RETRY_NOTE == <<"Your previous response was not valid JSON matching the required schema.">>

\* _build_summarization_prompt: the correction lines and the retry note the
\* prompt carries
_build_summarization_prompt(corrections, note) ==
    [corrections |-> corrections, retry_note |-> note]

ParsesAsObject(content) == _extract_json_object(Strip(content)) # NoData

\* mutant: one attempt more than SUMMARY_MAX_ATTEMPTS
SummarizeAttemptExtra(att, content) ==
    LET raw_content == Strip(content)
        summary_data == _parse_structured_summary(raw_content)
    IN  IF summary_data # NoData
        THEN [outcome |-> "rendered", data |-> summary_data,
              markdown |-> _render_structured_summary(summary_data)]
        ELSE IF att + 1 < SUMMARY_MAX_ATTEMPTS + 1
        THEN [outcome |-> "retry", data |-> NoData, markdown |-> NoMarkdown]
        ELSE [outcome |-> "raw", data |-> NoData,
              markdown |-> RawMarkdown(raw_content)]

\* one iteration of the loop of summarize(), from the arrival of the
\* completion: the document, another attempt, or the raw text after the
\* last attempt
SummarizeAttempt(att, content) ==
    LET raw_content == Strip(content)
        summary_data == _parse_structured_summary(raw_content)
    IN  IF summary_data # NoData
        THEN [outcome |-> "rendered", data |-> summary_data,
              markdown |-> _render_structured_summary(summary_data)]
        ELSE IF att + 1 < SUMMARY_MAX_ATTEMPTS
        THEN [outcome |-> "retry", data |-> NoData, markdown |-> NoMarkdown]
        ELSE [outcome |-> "raw", data |-> NoData,
              markdown |-> RawMarkdown(raw_content)]

-----------------------------------------------------------------------------
(* AS-IS / TO-BE derivation agents and confirmation collaborators          *)

Completion(text) == [kind |-> "completion", content |-> text]
TransportFailure == [kind |-> "failure"]

DefaultItem(kind) ==
    IF kind = "as_is"
    THEN <<"Current state details pending stakeholder confirmation.">>
    ELSE <<"Future state details pending stakeholder confirmation.">>

\* AsIsDerivationAgent._parse_response / ToBeDerivationAgent._parse_response
DerivationParse(kind, raw) ==
    LET text == Strip(raw)
        start == Find(text, "{")
        end == RFind(text, "}")
        braced == StartsWithBrace(LStrip(text))
        candidate == IF braced THEN text ELSE Slice(text, start, end)
        data == JsonLoads(candidate)
    IN  IF text = << >> THEN NoData
        ELSE IF ~braced /\ (start = -1 \/ end = -1 \/ end <= start) THEN NoData
        ELSE IF data.kind = "error" THEN NoData
        ELSE IF data.kind # "object" THEN Raised("AttributeError")
        ELSE [kind |-> "draft",
              items |-> IF "D" \in data.members THEN << <<"d">> >> ELSE << >>,
              processes |-> IF "E" \in data.members
                            THEN << Process(<<"e">>, << <<"h">> >>, << >>) >>
                            ELSE << >>]

\* derive(): the draft, completed from the fallbacks; a failure of the chat
\* client or of the parser is raised to the caller
derive(kind, outcome, fallback_items, fallback_processes) ==
    LET draft == DerivationParse(kind, outcome.content)
        bullets == SelectSeq(StripAll(fallback_items), NonEmpty)
        bullet_items == IF bullets = << >> THEN << DefaultItem(kind) >> ELSE bullets
    IN  IF outcome.kind = "failure" THEN Raised("transport")
        ELSE IF draft.kind = "raised" THEN draft
        ELSE IF draft = NoData
        THEN [kind |-> "draft", items |-> bullet_items,
              processes |-> fallback_processes]
        ELSE [kind |-> "draft",
              items |-> IF draft.items = << >> THEN bullet_items ELSE draft.items,
              processes |-> IF draft.processes = << >> THEN fallback_processes
                            ELSE draft.processes]

NonBlank(t) == Strip(t) # << >>

\* what the stakeholder does in confirm_as_is / confirm_to_be: approve the
\* proposal, add a detail, or add a process and leave its steps blank
confirm(choice, proposed_items, proposed_processes) ==
    [items |-> IF choice = "add_item"
               THEN Append(SelectSeq(proposed_items, NonBlank), <<"k">>)
               ELSE SelectSeq(proposed_items, NonBlank),
     processes |-> IF choice = "add_process"
                   THEN Append(proposed_processes, Process(<<"x">>, << >>, << >>))
                   ELSE proposed_processes]

-----------------------------------------------------------------------------
(* BusinessAnalystAGUIAgent.run_stream: the requests of one thread         *)

Requests == 1..NumRequests

\* the user text of a request: empty, or an answer
UserTexts == { << >>, <<"a">> }

-----------------------------------------------------------------------------
(* BusinessAnalystAGUIAgent: the registry of sessions by thread key.  The  *)
(* session of thread t is t; `live` is the weak dictionary _sessions,      *)
(* which loses a thread when the thread object is collected.               *)

NumThreads == 3
KeysPerThread == 3
_retained_session_limit == 8

Threads == 1..NumThreads

\* _compute_thread_keys(thread): the identifiers of the thread, the first of
\* them the chat-thread id "thread_..."
_compute_thread_keys(t) == [k \in 1..KeysPerThread |-> <<t, k>>]

\* key.startswith("thread_")
IsThreadKey(key) == key[2] = 1

SessionOfKey(key) == key[1]

RegistryIdle ==
    [live |-> {}, gone |-> {}, archived |-> {},
     thread_keys |-> {}, session_lookup |-> {},
     retained_session_keys |-> << >>, thread_record_index |-> {},
     pc |-> "idle", evicted |-> {}]

\* _remember_record_mapping(session) on the lookup table `lookup`: the
\* thread_record_index afterwards
_remember_record_mapping(reg, lookup, session) ==
    IF session \notin reg.archived THEN reg.thread_record_index
    ELSE reg.thread_record_index
         \cup {key \in lookup : SessionOfKey(key) = session /\ IsThreadKey(key)}

Without(seq, keys) == SelectSeq(seq, LAMBDA key : key \notin keys)

\* the keys of `keys` that are not in `seq`, appended to it in order
RECURSIVE AppendMissing(_, _)
AppendMissing(seq, keys) ==
    IF keys = << >> THEN seq
    ELSE AppendMissing(IF Head(keys) \in SetOf(seq) THEN seq
                       ELSE Append(seq, Head(keys)),
                       Tail(keys))

RegistryUnchanged ==
    UNCHANGED << thread_session, sessions, requests, bas, configVars, plannerVars,
                 turns, interviewVars, parseVars, reviewVars >>

\* self._sessions[thread] = session_state; self._register_session(thread,
\* session_state), as run_stream does
_register_session(t) ==
    /\ registry.pc = "idle"
    /\ t \notin registry.gone
    /\ LET keys == SetOf(_compute_thread_keys(t))
           lookup == registry.session_lookup \cup keys
       IN  registry' =
               [registry EXCEPT
                   !.live = @ \cup {t},
                   !.thread_keys = @ \cup {t},
                   !.session_lookup = lookup,
                   !.retained_session_keys = Without(@, keys),
                   !.thread_record_index = _remember_record_mapping(registry, lookup, t)]
    /\ RegistryUnchanged

\* _unregister_session(thread, keep_lookup=True) up to the call of
\* _trim_retained_sessions
_unregister_session(t) ==
    /\ registry.pc = "idle"
    /\ t \notin registry.gone
    /\ LET keys == IF t \in registry.thread_keys THEN _compute_thread_keys(t)
                   ELSE << >>
           found == SelectSeq(keys, LAMBDA key : key \in registry.session_lookup)
       IN  registry' =
               [registry EXCEPT
                   !.thread_keys = @ \ {t},
                   !.retained_session_keys = AppendMissing(@, keys),
                   !.thread_record_index =
                       IF found = << >> THEN @
                       ELSE _remember_record_mapping(registry, registry.session_lookup,
                                                     SessionOfKey(Head(found))),
                   !.pc = "trimming"]
    /\ RegistryUnchanged

\* one iteration of the loop of _trim_retained_sessions
TrimIteration ==
    /\ registry.pc = "trimming"
    /\ Len(registry.retained_session_keys) > _retained_session_limit
    /\ LET oldest == Head(registry.retained_session_keys)
           known == oldest \in registry.session_lookup
           session == SessionOfKey(oldest)
           index == IF known
                    THEN _remember_record_mapping(registry, registry.session_lookup,
                                                  session)
                    ELSE registry.thread_record_index
       IN  IF known /\ session \in registry.live
           THEN registry' =
                    [registry EXCEPT
                        !.retained_session_keys = Append(Tail(@), oldest),
                        !.thread_record_index = index]
           ELSE registry' =
                    [registry EXCEPT
                        !.retained_session_keys = Tail(@),
                        !.thread_record_index = index,
                        !.session_lookup = @ \ {oldest},
                        !.evicted = @ \cup {oldest}]
    /\ RegistryUnchanged

\* the loop condition of _trim_retained_sessions is false: the call of
\* _unregister_session returns
TrimReturns ==
    /\ registry.pc = "trimming"
    /\ Len(registry.retained_session_keys) <= _retained_session_limit
    /\ registry' = [registry EXCEPT !.pc = "idle"]
    /\ RegistryUnchanged

\* the thread object is collected: the weak dictionaries lose it
ThreadCollected(t) ==
    /\ registry.pc = "idle"
    /\ t \in registry.live
    /\ registry' = [registry EXCEPT !.live = @ \ {t},
                                    !.thread_keys = @ \ {t},
                                    !.gone = @ \cup {t}]
    /\ RegistryUnchanged

\* the session archived its specification: archived_record_id is set
SessionArchived(t) ==
    /\ registry.pc = "idle"
    /\ t \in registry.live
    /\ t \notin registry.archived
    /\ registry' = [registry EXCEPT !.archived = @ \cup {t}]
    /\ RegistryUnchanged

-----------------------------------------------------------------------------
(* BusinessAnalystSession: its phase flags and the handle_user_message     *)
(* calls made on it.  Nothing serializes the calls on one session, so a    *)
(* call may start while another one is suspended at an await.              *)

MaxCalls == 3

SessionCalls == 1..MaxCalls

TERMINATION_TOKENS == { <<"done">> }
\* NEGATIVE_FEEDBACK_RESPONSES with the termination tokens it is united with
NegativeOrTermination == { << >>, <<"n">> } \cup TERMINATION_TOKENS

\* a whitespace-only text, a termination token, a negative reply that is no
\* termination token, and any other answer
SessionTexts == { <<" ">>, <<"done">>, <<"n">>, <<"a">> }

\* BusinessAnalystSession.create(): the fields of the dataclass, the length
\* of the agent's transcript, and the position of every call
SessionCreated ==
    [completed |-> FALSE,
     awaiting_closing_feedback |-> FALSE,
     pending_spec_text |-> FALSE,
     final_message |-> "None",
     archived_record_id |-> FALSE,
     turns |-> 0,
     calls |-> [c \in SessionCalls |-> [pc |-> "new", text |-> << >>]],
     next_question_after_interview |-> FALSE,
     overlapped |-> FALSE]

SessionUnchanged ==
    UNCHANGED << thread_session, sessions, requests, registry, configVars, plannerVars,
                 turns, interviewVars, parseVars, reviewVars >>

Suspended(c) ==
    bas.calls[c].pc \in {"await_next_question", "await_finalize", "await_closing",
                         "await_follow_up"}

\* the end of _handle_closing_feedback and of
\* _handle_post_completion_follow_up: the specification is exported and
\* archived and the session is completed
CompleteSession(b, record_id) ==
    [b EXCEPT !.pending_spec_text = TRUE,
              !.archived_record_id = @ \/ record_id,
              !.final_message = "closing",
              !.completed = TRUE,
              !.awaiting_closing_feedback = FALSE]

\* _finalize_session up to its await of agent.summarize(): the stored
\* message is returned when the session already has one
FinalizeSessionStarts(b, c) ==
    IF (b.completed \/ b.awaiting_closing_feedback) /\ b.final_message # "None"
    THEN [b EXCEPT !.calls[c].pc = "done"]
    ELSE [b EXCEPT !.calls[c].pc = "await_finalize"]

\* _finalize_session after agent.summarize() returned
FinalizeSessionReturns(b, c) ==
    [b EXCEPT !.pending_spec_text = TRUE,
              !.awaiting_closing_feedback = TRUE,
              !.final_message = "draft",
              !.calls[c].pc = "done"]

\* BusinessAnalystSession.kickoff(): the first question is recorded
SessionKickoff ==
    /\ bas.turns = 0
    /\ bas' = [bas EXCEPT !.turns = 1]
    /\ SessionUnchanged

\* handle_user_message(user_text) up to its first await, or to its return
\* when it awaits nothing
HandleUserMessageStarts(c, user_text) ==
    /\ bas.turns > 0
    /\ bas.calls[c].pc = "new"
    /\ LET normalized == Strip(user_text)
           b == [bas EXCEPT !.calls[c].text = user_text,
                            !.overlapped = @ \/ \E d \in SessionCalls : Suspended(d)]
       IN  IF normalized = << >>
           THEN bas' = [b EXCEPT !.calls[c].pc = "done"]
           ELSE IF bas.awaiting_closing_feedback
           THEN \* _handle_closing_feedback: record_question(closing_prompt, answer)
                LET recorded == [b EXCEPT !.turns = @ + 1]
                IN  IF normalized \notin NegativeOrTermination
                       \/ ~bas.pending_spec_text
                    THEN bas' = [recorded EXCEPT !.calls[c].pc = "await_closing"]
                    ELSE \E record_id \in BOOLEAN :
                             bas' = [CompleteSession(recorded, record_id)
                                         EXCEPT !.calls[c].pc = "done"]
           ELSE IF bas.completed
           THEN \* _handle_post_completion_follow_up
                IF normalized \in TERMINATION_TOKENS \cup NegativeOrTermination
                THEN bas' = [b EXCEPT !.calls[c].pc = "done"]
                ELSE bas' = [b EXCEPT !.turns = @ + 1,
                                      !.calls[c].pc = "await_follow_up"]
           ELSE IF normalized \in TERMINATION_TOKENS
           THEN bas' = FinalizeSessionStarts(b, c)
           ELSE \* agent.next_question(normalized)
                bas' = [b EXCEPT !.calls[c].pc = "await_next_question",
                                 !.next_question_after_interview =
                                     @ \/ bas.completed \/ bas.awaiting_closing_feedback]
    /\ SessionUnchanged

\* the completion awaited by a suspended call arrives, or the await raises
HandleUserMessageResumes(c) ==
    /\ Suspended(c)
    /\ \/ bas' = [bas EXCEPT !.calls[c].pc = "raised"]
       \/ /\ bas.calls[c].pc = "await_next_question"
          /\ \/ bas' = [bas EXCEPT !.turns = @ + 1, !.calls[c].pc = "done"]
             \/ bas' = FinalizeSessionStarts(bas, c)
       \/ /\ bas.calls[c].pc = "await_finalize"
          /\ bas' = FinalizeSessionReturns(bas, c)
       \/ /\ bas.calls[c].pc \in {"await_closing", "await_follow_up"}
          /\ \E record_id \in BOOLEAN :
                 bas' = [CompleteSession(bas, record_id) EXCEPT !.calls[c].pc = "done"]
    /\ SessionUnchanged

\* no request has been received: _sessions is empty
TransportIdle ==
    /\ thread_session = 0
    /\ sessions = << >>
    /\ registry = RegistryIdle
    /\ bas = SessionCreated
    /\ requests = [r \in Requests |-> [pc |-> "new", session_state |-> 0,
                                       user_text |-> << >>]]

\* BusinessAnalystSession.handle_user_message up to the await of
\* agent.next_question: the answer is stored in the last turn and the
\* completion of the next question is requested
HandleUserMessage(r, s, text) ==
    /\ sessions' = [sessions EXCEPT ![s].turns[Len(sessions[s].turns)].answer = text,
                                    ![s].llm_calls = @ + 1]
    /\ requests' = [requests EXCEPT ![r] = [pc |-> "await_handle",
                                            session_state |-> s,
                                            user_text |-> text]]

\* run_stream from its first line to its first await
RunStream(r) ==
    /\ requests[r].pc = "new"
    /\ \E text \in UserTexts :
         IF thread_session = 0
         THEN \* BusinessAnalystSession.create, then await session_state.kickoff()
              /\ sessions' = Append(sessions, [turns |-> << >>, llm_calls |-> 1])
              /\ requests' = [requests EXCEPT ![r] = [pc |-> "await_kickoff",
                                                      session_state |-> Len(sessions) + 1,
                                                      user_text |-> text]]
         ELSE IF text = << >>
         THEN /\ requests' = [requests EXCEPT ![r] = [pc |-> "done",
                                                      session_state |-> thread_session,
                                                      user_text |-> text]]
              /\ UNCHANGED sessions
         ELSE HandleUserMessage(r, thread_session, text)
    /\ UNCHANGED << thread_session, registry, bas, configVars, plannerVars, turns, interviewVars,
                    parseVars, reviewVars >>

\* the kickoff completion arrives: the question is recorded, and run_stream
\* hands the update to its consumer (await _append_assistant_message, yield)
KickoffReturns(r) ==
    /\ requests[r].pc = "await_kickoff"
    /\ LET s == requests[r].session_state
       IN  sessions' = [sessions EXCEPT
                           ![s].turns = Append(@, [question |-> <<"q">>, answer |-> << >>]),
                           ![s].llm_calls = @ - 1]
    /\ requests' = [requests EXCEPT ![r].pc = "yielded"]
    /\ UNCHANGED << thread_session, registry, bas, configVars, plannerVars, turns, interviewVars,
                    parseVars, reviewVars >>

\* the consumer resumes run_stream after the kickoff update: the session is
\* stored for the thread, and the user text, if any, is handled
SessionStored(r) ==
    /\ requests[r].pc = "yielded"
    /\ thread_session' = requests[r].session_state
    /\ IF requests[r].user_text = << >>
       THEN /\ requests' = [requests EXCEPT ![r].pc = "done"]
            /\ UNCHANGED sessions
       ELSE HandleUserMessage(r, requests[r].session_state, requests[r].user_text)
    /\ UNCHANGED << registry, bas, configVars, plannerVars, turns, interviewVars, parseVars,
                    reviewVars >>

\* the completion awaited by next_question arrives: the follow-up question
\* is recorded and sent
HandleReturns(r) ==
    /\ requests[r].pc = "await_handle"
    /\ LET s == requests[r].session_state
       IN  sessions' = [sessions EXCEPT
                           ![s].turns = Append(@, [question |-> <<"q">>, answer |-> << >>]),
                           ![s].llm_calls = @ - 1]
    /\ requests' = [requests EXCEPT ![r].pc = "done"]
    /\ UNCHANGED << thread_session, registry, bas, configVars, plannerVars, turns, interviewVars,
                    parseVars, reviewVars >>

-----------------------------------------------------------------------------
(* finalize_current_summary and the two confirmation steps                 *)

NoFrame == [kind |-> "none"]

\* the locals a confirmation step sets before its first await
Frame(kind, data) ==
    [kind |-> kind,
     fallback_items |-> data[ItemsKey(kind)],
     fallback_processes |-> CoerceFor(kind, data[ProcessesKey(kind)]),
     approved_items |-> approved_items[kind],
     approved_processes |-> approved_processes[kind],
     derived_items |-> << >>,
     derived_processes |-> << >>]

WriteKind(data, kind, items, processes) ==
    [data EXCEPT ![ItemsKey(kind)] = items,
                 ![ProcessesKey(kind)] = _serialize_processes(processes)]

\* mutant: a failed step empties the draft's content of its kind
FallbackWriteEmpty(data, frame) ==
    WriteKind(data, frame.kind, << >>, << >>)

\* the except branch of a confirmation step
FallbackWrite(data, frame) ==
    WriteKind(data, frame.kind, frame.fallback_items, frame.fallback_processes)

\* the first test of a confirmation step: an approval exists and the
\* transcript has as many turns as when it was confirmed
ReuseApproval(kind) ==
    /\ approved_items[kind].some
    /\ approved_processes[kind].some
    /\ Len(turns) = confirmed_turns[kind]

\* ---- history of the finalization in progress (or of the last one)
NoEntry == [kind |-> "none"]

NoFin ==
    [steps |-> << >>,                             \* confirmation steps entered, in order
     reused |-> [k \in Kinds |-> FALSE],          \* at entry: approved, and no new turn since
     derive |-> [k \in Kinds |-> 0],              \* derivation calls of the step
     confirm |-> [k \in Kinds |-> 0],             \* collaborator calls of the step
     failed |-> [k \in Kinds |-> FALSE],          \* the step took its except branch
     stored |-> [k \in Kinds |-> FALSE],          \* the step stored an approval
     entry |-> [k \in Kinds |-> NoEntry],         \* draft and approval at the entry of
                                                  \* a step in progress or failed
     before |-> NoEntry]                          \* summary and approvals when the
                                                  \* finalization in progress started

Approval(kind) ==
    << approved_items[kind], approved_processes[kind],
       confirmed_turns[kind], signature[kind] >>

NoNewTurnsSinceApproval(kind) ==
    /\ approved_items[kind] # Absent
    /\ approved_processes[kind] # Absent
    /\ confirmed_turns[kind] = Len(turns)

\* the agent's summary and approval records, as `op` starts
Snapshot(op) ==
    [op |-> op,
     data |-> latest_summary_data,
     markdown |-> latest_spec_markdown,
     approvals |-> [k \in Kinds |-> Approval(k)]]

EnterStep(f, kind, data) ==
    [f EXCEPT !.steps = Append(@, kind),
              !.reused[kind] = NoNewTurnsSinceApproval(kind),
              !.entry[kind] = [items |-> data[ItemsKey(kind)],
                               processes |-> data[ProcessesKey(kind)],
                               approval |-> Approval(kind)]]

\* the step of `kind` has returned without failing
Done(f, kind) == [f EXCEPT !.entry[kind] = NoEntry]

\* finalize_current_summary returns the rendered draft
Finish(data, f) ==
    /\ latest_summary_data' = data
    /\ latest_spec_markdown' = _render_structured_summary(data)
    /\ spec_text_local' = _render_structured_summary(data)
    /\ rpc' = "returned"
    /\ cf' = NoFrame
    /\ fin' = [f EXCEPT !.before = NoEntry]

\* a confirmation step awaits its derivation call
AwaitDerive(kind, data, f) ==
    /\ latest_summary_data' = data
    /\ cf' = Frame(kind, data)
    /\ rpc' = "await_derive"
    /\ fin' = [f EXCEPT !.derive[kind] = @ + 1]
    /\ UNCHANGED << latest_spec_markdown, spec_text_local >>

\* _apply_future_state_confirmation up to its first await, or to the end
ProceedToBe(data, f) ==
    LET g == EnterStep(f, "to_be", data)
    IN  IF ReuseApproval("to_be")
        THEN Finish(WriteKind(data, "to_be", approved_items["to_be"].value,
                              approved_processes["to_be"].value),
                    Done(g, "to_be"))
        ELSE AwaitDerive("to_be", data, g)

\* _apply_as_is_confirmation up to its first await, or on to the TO-BE step
ProceedAsIs(data, f) ==
    LET g == EnterStep(f, "as_is", data)
    IN  IF ReuseApproval("as_is")
        THEN ProceedToBe(WriteKind(data, "as_is", approved_items["as_is"].value,
                                   approved_processes["as_is"].value),
                         Done(g, "as_is"))
        ELSE AwaitDerive("as_is", data, g)

\* the step of `kind` has returned
AfterStep(kind, data, f) ==
    IF kind = "as_is" THEN ProceedToBe(data, f) ELSE Finish(data, f)

\* mutant: the draft is rendered without running the confirmation steps
FinalizeUnconfirmed ==
    IF latest_summary_data = NoData
    THEN /\ rpc' = IF latest_spec_markdown = NoMarkdown THEN "raised" ELSE "returned"
         /\ spec_text_local' = latest_spec_markdown
         /\ cf' = NoFrame
         /\ fin' = NoFin
         /\ UNCHANGED summaryVars
    ELSE Finish(latest_summary_data, NoFin)

\* finalize_current_summary from its first line
Finalize ==
    IF latest_summary_data = NoData
    THEN /\ rpc' = IF latest_spec_markdown = NoMarkdown THEN "raised" ELSE "returned"
         /\ spec_text_local' = latest_spec_markdown
         /\ cf' = NoFrame
         /\ fin' = NoFin
         /\ UNCHANGED summaryVars
    ELSE ProceedAsIs(latest_summary_data,
                     [NoFin EXCEPT !.before = Snapshot("finalize")])

\* ---- history of the review loop
NoHist ==
    [runs |-> 0,                  \* runs of _produce_reviewed_specification started
     cycles |-> 0,                \* summarize() calls of the current run
     reviews |-> 0,               \* review_spec() calls of the current run
     llm_calls |-> 0,             \* completions requested by the current summarize()
     last_response |-> << >>,     \* content of the last completion summarize() got
     ended |-> "no",              \* how the loop of the current run ended
     prev_fp |-> Absent,          \* fingerprint of the review of the previous pass
     prev_stored |-> [k \in Kinds |-> FALSE],   \* fin.stored of the finalization before
     notes |-> {},                \* corrections the reviews of the current run call for
     turns_before |-> 0,          \* turns of the transcript when the last review that
                                  \* asked for follow-up arrived
     before |-> NoEntry]          \* summary and approvals when the summarize() in
                                  \* progress started

\* summarize() from its first line to its first await
BeginSummarize(corrections, h) ==
    /\ attempts' = 0
    /\ retry_note' = << >>
    /\ summarization_prompt' = _build_summarization_prompt(corrections, << >>)
    /\ rpc' = "await_summary"
    /\ hist' = [h EXCEPT !.cycles = @ + 1, !.llm_calls = 1,
                         !.before = Snapshot("summarize")]

\* _produce_reviewed_specification from its first line to its first await
BeginRun ==
    /\ review_warnings' = << >>
    /\ attempt_count' = 0
    /\ seen_signatures' = {}
    /\ spec_text_local' = RawMarkdown(<< >>)
    /\ follow_ups' = << >>
    /\ review' = NotRun
    /\ cf' = NoFrame
    /\ fin' = NoFin
    /\ BeginSummarize(summarization_corrections,
                      [hist EXCEPT !.runs = @ + 1, !.cycles = 0, !.reviews = 0,
                                   !.ended = "no", !.prev_fp = Absent,
                                   !.notes = {}, !.turns_before = 0])
    /\ UNCHANGED << summarization_corrections, approvalVars, summaryVars >>

-----------------------------------------------------------------------------
(* The review convergence loop of run_interview                            *)

SummaryResponses ==
    { <<"w", " ">>,
      <<"{", "}">>,
      <<"{", "I", ",", "N", ",", "O", "}">>,
      <<"w", "{", "P", ",", "R", "}">> }

ReviewResponses ==
    { <<"{", "A", ",", "V", "}">>,
      <<"w">>,
      <<"{", "A", ",", "V", ",", "U", "}">>,
      <<"{", "M", ",", "B", "}">>,
      <<"7">> }

DeriveOutcomes ==
    { TransportFailure,
      Completion(<<"w">>),
      Completion(<<"{", "D", "}">>),
      Completion(<<"{", "D", ",", "E", "}">>) }

ConfirmChoices == {"approve", "add_item", "add_process", "raise"}

CLOSING_PROMPT == <<"CLOSING_PROMPT">>

\* the stakeholder's reply to the closing prompt: "no", or feedback
ClosingReplies == { <<"n">>, <<"a">> }
NEGATIVE_FEEDBACK_RESPONSES == { <<"n">> }

\* spec_text = await _produce_reviewed_specification(), first call
StartRun ==
    /\ rpc = "idle"
    /\ BeginRun
    /\ UNCHANGED << aguiVars, configVars, plannerVars, turns, interviewVars, parseVars >>

\* the completion awaited by summarize() arrives, with one of `responses`
SummaryArrivesFrom(responses) ==
    /\ rpc = "await_summary"
    /\ \E content \in responses :
         LET step == SummarizeAttempt(attempts, content)
             h == [hist EXCEPT !.last_response = content]
         IN  /\ latest_summary_data' = step.data
             /\ CASE step.outcome = "rendered" ->
                       /\ latest_spec_markdown' = step.markdown
                       /\ spec_text_local' = step.markdown
                       /\ rpc' = "await_review"
                       /\ hist' = [h EXCEPT !.reviews = @ + 1, !.before = NoEntry]
                       /\ UNCHANGED summarizeVars
                  [] step.outcome = "retry" ->
                       /\ retry_note' = RETRY_NOTE
                       /\ attempts' = attempts + 1
                       /\ summarization_prompt' =
                              _build_summarization_prompt(summarization_corrections,
                                                          RETRY_NOTE)
                       /\ hist' = [h EXCEPT !.llm_calls = @ + 1]
                       /\ UNCHANGED << latest_spec_markdown, spec_text_local, rpc >>
                  [] step.outcome = "raw" ->
                       /\ retry_note' = RETRY_NOTE
                       /\ attempts' = attempts + 1
                       /\ latest_spec_markdown' = step.markdown
                       /\ spec_text_local' = step.markdown
                       /\ rpc' = "await_review"
                       /\ hist' = [h EXCEPT !.reviews = @ + 1, !.before = NoEntry]
                       /\ UNCHANGED summarization_prompt
    /\ UNCHANGED << aguiVars, configVars, plannerVars, turns, interviewVars, parseVars,
                    summarization_corrections, approvalVars, loopVars, cf, fin >>

\* the reviewer's completion arrives, with one of `responses`: review_spec
\* returns and the loop takes its branch
ReviewArrivesFrom(responses) ==
    /\ rpc = "await_review"
    /\ \E raw \in responses :
         LET r == _parse_response(raw)
             verdict == LoopVerdict(r, attempt_count, seen_signatures)
             ended(how) == [hist EXCEPT !.ended = how,
                                        !.prev_stored = fin.stored]
         IN  IF r.kind = "raised"
             THEN /\ rpc' = "raised"
                  /\ UNCHANGED << summarization_corrections, summaryVars, loopVars,
                                  spec_text_local, summarizeVars, cf, hist, fin >>
             ELSE /\ review' = r
                  /\ CASE verdict = "accepted" ->
                            /\ summarization_corrections' = << >>
                            /\ hist' = ended("accepted")
                            /\ Finalize
                            /\ UNCHANGED << attempt_count, seen_signatures,
                                            review_warnings, follow_ups,
                                            summarizeVars >>
                       [] verdict = "repeated" ->
                            /\ review_warnings' = outstanding_items(r)
                            /\ hist' = ended("repeated")
                            /\ Finalize
                            /\ UNCHANGED << summarization_corrections, attempt_count,
                                            seen_signatures, follow_ups,
                                            summarizeVars >>
                       [] verdict = "capped" ->
                            /\ seen_signatures' = seen_signatures \cup {fingerprint(r)}
                            /\ review_warnings' = outstanding_items(r)
                            /\ hist' = ended("capped")
                            /\ Finalize
                            /\ UNCHANGED << summarization_corrections, attempt_count,
                                            follow_ups, summarizeVars >>
                       [] verdict = "continue" ->
                            /\ seen_signatures' = seen_signatures \cup {fingerprint(r)}
                            /\ attempt_count' = attempt_count + 1
                            /\ summarization_corrections' =
                                   apply_review_feedback(summarization_corrections, r)
                            /\ follow_ups' = IF r.follow_up_questions = << >>
                                             THEN << GenericFollowUp >>
                                             ELSE r.follow_up_questions
                            /\ rpc' = "await_answer"
                            /\ hist' = [hist EXCEPT !.prev_fp = Some(fingerprint(r)),
                                                     !.notes = @ \cup CorrectionsOf(r),
                                                     !.turns_before = Len(turns)]
                            /\ UNCHANGED << summaryVars, review_warnings,
                                            spec_text_local, summarizeVars, cf, fin >>
    /\ UNCHANGED << aguiVars, configVars, plannerVars, turns, interviewVars, parseVars,
                    approvalVars >>

SummaryArrives == SummaryArrivesFrom(SummaryResponses)

ReviewArrives == ReviewArrivesFrom(ReviewResponses)

\* mutant: after the first answer the other follow-up questions are dropped
FollowUpAnsweredOnce ==
    /\ rpc = "await_answer"
    /\ follow_ups # << >>
    /\ \E answer \in Answers :
         LET follow_up == Head(follow_ups)
             subject_name == IF Truthy(follow_up.subject) THEN follow_up.subject
                             ELSE << >>
         IN  turns' = Append(turns,
                             InterviewTurn(follow_up.question, answer,
                                           _normalize_subject_name(subject_name)))
    /\ follow_ups' = << >>
    /\ BeginSummarize(summarization_corrections, hist)
    /\ UNCHANGED << aguiVars, configVars, plannerVars, interviewVars, parseVars,
                    summarization_corrections, approvalVars, summaryVars,
                    attempt_count, seen_signatures, review_warnings, review,
                    spec_text_local, cf, fin >>

\* the stakeholder answers the next follow-up question of the pass:
\* record_manual_follow_up; after the last one the loop summarizes again
FollowUpAnswered ==
    /\ rpc = "await_answer"
    /\ follow_ups # << >>
    /\ \E answer \in Answers :
         LET follow_up == Head(follow_ups)
             subject_name == IF Truthy(follow_up.subject) THEN follow_up.subject
                             ELSE << >>
         IN  turns' = Append(turns,
                             InterviewTurn(follow_up.question, answer,
                                           _normalize_subject_name(subject_name)))
    /\ follow_ups' = Tail(follow_ups)
    /\ IF Tail(follow_ups) = << >>
       THEN BeginSummarize(summarization_corrections, hist)
       ELSE UNCHANGED << rpc, summarizeVars, hist >>
    /\ UNCHANGED << aguiVars, configVars, plannerVars, interviewVars, parseVars,
                    summarization_corrections, approvalVars, summaryVars,
                    attempt_count, seen_signatures, review_warnings, review,
                    spec_text_local, cf, fin >>

\* mutant: a failed step forgets the approval of its kind
StepFailsForgetting ==
    /\ approved_items' = [approved_items EXCEPT ![cf.kind] = Absent]
    /\ approved_processes' = [approved_processes EXCEPT ![cf.kind] = Absent]
    /\ confirmed_turns' = [confirmed_turns EXCEPT ![cf.kind] = 0]
    /\ signature' = [signature EXCEPT ![cf.kind] = Absent]
    /\ AfterStep(cf.kind, FallbackWrite(latest_summary_data, cf),
                 [fin EXCEPT !.failed[cf.kind] = TRUE])

\* the except branch of the confirmation step in progress
StepFails ==
    /\ UNCHANGED approvalVars
    /\ AfterStep(cf.kind, FallbackWrite(latest_summary_data, cf),
                 [fin EXCEPT !.failed[cf.kind] = TRUE])

\* mutant: the equivalence fallback reuses the approval without refreshing
\* the stored signature and turn count
DeriveArrivesWithoutRefresh ==
    /\ rpc = "await_derive"
    /\ \E outcome \in DeriveOutcomes :
         LET kind == cf.kind
             derived_draft == derive(kind, outcome, cf.fallback_items,
                                     cf.fallback_processes)
             approved == cf.approved_items.some /\ cf.approved_processes.some
             reuse == WriteKind(latest_summary_data, kind, cf.approved_items.value,
                                cf.approved_processes.value)
         IN  IF derived_draft.kind = "raised" THEN StepFails
             ELSE IF /\ approved
                     /\ _items_equivalent(cf.approved_items.value, derived_draft.items)
                     /\ _processes_equivalent(cf.approved_processes.value,
                                              derived_draft.processes)
             THEN /\ UNCHANGED approvalVars
                  /\ AfterStep(kind, reuse, Done(fin, kind))
             ELSE /\ cf' = [cf EXCEPT !.derived_items = derived_draft.items,
                                      !.derived_processes = derived_draft.processes]
                  /\ rpc' = "await_confirm"
                  /\ fin' = [fin EXCEPT !.confirm[kind] = @ + 1]
                  /\ UNCHANGED << approvalVars, summaryVars, spec_text_local >>
    /\ UNCHANGED << aguiVars, configVars, plannerVars, turns, interviewVars, parseVars,
                    summarization_corrections, loopVars, summarizeVars, hist >>

\* mutant: the equivalence fallback refreshes the stored turn count and
\* leaves the stored signature as it was
DeriveArrivesRefreshingTurnsOnly ==
    /\ rpc = "await_derive"
    /\ \E outcome \in DeriveOutcomes :
         LET kind == cf.kind
             derived_draft == derive(kind, outcome, cf.fallback_items,
                                     cf.fallback_processes)
             current_signature ==
                 _compose_process_summary_signature(Len(turns), derived_draft.items,
                                                    derived_draft.processes)
             approved == cf.approved_items.some /\ cf.approved_processes.some
             reuse == WriteKind(latest_summary_data, kind, cf.approved_items.value,
                                cf.approved_processes.value)
         IN  IF derived_draft.kind = "raised" THEN StepFails
             ELSE IF approved /\ signature[kind] = Some(current_signature)
             THEN /\ UNCHANGED approvalVars
                  /\ AfterStep(kind, reuse, Done(fin, kind))
             ELSE IF /\ approved
                     /\ _items_equivalent(cf.approved_items.value, derived_draft.items)
                     /\ _processes_equivalent(cf.approved_processes.value,
                                              derived_draft.processes)
             THEN /\ confirmed_turns' = [confirmed_turns EXCEPT ![kind] = Len(turns)]
                  /\ UNCHANGED << approved_items, approved_processes, signature >>
                  /\ AfterStep(kind, reuse, Done(fin, kind))
             ELSE /\ cf' = [cf EXCEPT !.derived_items = derived_draft.items,
                                      !.derived_processes = derived_draft.processes]
                  /\ rpc' = "await_confirm"
                  /\ fin' = [fin EXCEPT !.confirm[kind] = @ + 1]
                  /\ UNCHANGED << approvalVars, summaryVars, spec_text_local >>
    /\ UNCHANGED << aguiVars, configVars, plannerVars, turns, interviewVars, parseVars,
                    summarization_corrections, loopVars, summarizeVars, hist >>

\* the derivation call of the confirmation step in progress returns or raises
DeriveArrives ==
    /\ rpc = "await_derive"
    /\ \E outcome \in DeriveOutcomes :
         LET kind == cf.kind
             derived_draft == derive(kind, outcome, cf.fallback_items,
                                     cf.fallback_processes)
             current_signature ==
                 _compose_process_summary_signature(Len(turns), derived_draft.items,
                                                    derived_draft.processes)
             approved == cf.approved_items.some /\ cf.approved_processes.some
             reuse == WriteKind(latest_summary_data, kind, cf.approved_items.value,
                                cf.approved_processes.value)
         IN  IF derived_draft.kind = "raised" THEN StepFails
             ELSE IF approved /\ signature[kind] = Some(current_signature)
             THEN /\ UNCHANGED approvalVars
                  /\ AfterStep(kind, reuse, Done(fin, kind))
             ELSE IF /\ approved
                     /\ _items_equivalent(cf.approved_items.value, derived_draft.items)
                     /\ _processes_equivalent(cf.approved_processes.value,
                                              derived_draft.processes)
             THEN /\ signature' = [signature EXCEPT ![kind] = Some(current_signature)]
                  /\ confirmed_turns' = [confirmed_turns EXCEPT ![kind] = Len(turns)]
                  /\ UNCHANGED << approved_items, approved_processes >>
                  /\ AfterStep(kind, reuse, Done(fin, kind))
             ELSE /\ cf' = [cf EXCEPT !.derived_items = derived_draft.items,
                                      !.derived_processes = derived_draft.processes]
                  /\ rpc' = "await_confirm"
                  /\ fin' = [fin EXCEPT !.confirm[kind] = @ + 1]
                  /\ UNCHANGED << approvalVars, summaryVars, spec_text_local >>
    /\ UNCHANGED << aguiVars, configVars, plannerVars, turns, interviewVars, parseVars,
                    summarization_corrections, loopVars, summarizeVars, hist >>

\* the confirmation collaborator returns the stakeholder's review, or raises
ConfirmArrives ==
    /\ rpc = "await_confirm"
    /\ \E choice \in ConfirmChoices :
         LET kind == cf.kind
             result == confirm(choice, cf.derived_items, cf.derived_processes)
             items == IF kind = "as_is" THEN result.items
                      ELSE StripAll(SelectSeq(result.items, NonEmpty))
             processes == result.processes
         IN  IF choice = "raise" THEN StepFails
             ELSE /\ approved_items' = [approved_items EXCEPT ![kind] = Some(items)]
                  /\ approved_processes' =
                         [approved_processes EXCEPT ![kind] = Some(processes)]
                  /\ confirmed_turns' = [confirmed_turns EXCEPT ![kind] = Len(turns)]
                  /\ signature' =
                         [signature EXCEPT ![kind] =
                             Some(_compose_process_summary_signature(
                                      Len(turns), items, processes))]
                  /\ AfterStep(kind,
                               WriteKind(latest_summary_data, kind, items, processes),
                               [Done(fin, kind) EXCEPT !.stored[kind] = TRUE])
    /\ UNCHANGED << aguiVars, configVars, plannerVars, turns, interviewVars, parseVars,
                    summarization_corrections, loopVars, summarizeVars, hist >>

\* run_interview after the first call of the loop has returned: the reply to
\* the closing prompt is recorded; feedback starts the second call of
\* _produce_reviewed_specification, "no" ends the interview
ClosingFeedback ==
    /\ rpc = "returned"
    /\ hist.runs = 1
    /\ \E reply \in ClosingReplies :
         /\ turns' = Append(turns,
                            InterviewTurn(CLOSING_PROMPT, reply,
                                          IF pending_subject_index # NoIndex
                                          THEN SUBJECT_PLAN[pending_subject_index]
                                          ELSE << >>))
         /\ IF reply \notin NEGATIVE_FEEDBACK_RESPONSES
            THEN BeginRun
            ELSE /\ rpc' = "off"
                 /\ UNCHANGED << summarization_corrections, approvalVars,
                                 summaryVars, loopVars, spec_text_local,
                                 summarizeVars, cf, hist, fin >>
    /\ pending_subject_index' = NoIndex
    /\ UNCHANGED << aguiVars, configVars, subject_question_counts, subjects_completed,
                    current_subject_idx, active_subject_index, interviewVars,
                    parseVars >>

\* a caller finalizes the current summary once more
\* (finalize_current_summary is public)
FinalizeAgain ==
    /\ rpc = "returned"
    /\ hist' = [hist EXCEPT !.prev_stored = fin.stored]
    /\ Finalize
    /\ UNCHANGED << aguiVars, configVars, plannerVars, turns, interviewVars, parseVars,
                    summarization_corrections, approvalVars, loopVars,
                    summarizeVars >>

\* state of the agent's summary fields after __init__, and of a driver that
\* has not called _produce_reviewed_specification
ReviewIdle ==
    /\ summarization_corrections = << >>
    /\ approved_items = [k \in Kinds |-> Absent]
    /\ approved_processes = [k \in Kinds |-> Absent]
    /\ confirmed_turns = [k \in Kinds |-> 0]
    /\ signature = [k \in Kinds |-> Absent]
    /\ latest_summary_data = NoData
    /\ latest_spec_markdown = NoMarkdown
    /\ attempt_count = 0
    /\ seen_signatures = {}
    /\ review_warnings = << >>
    /\ spec_text_local = RawMarkdown(<< >>)
    /\ review = NotRun
    /\ follow_ups = << >>
    /\ attempts = 0
    /\ retry_note = << >>
    /\ summarization_prompt = _build_summarization_prompt(<< >>, << >>)
    /\ cf = NoFrame
    /\ hist = NoHist
    /\ fin = NoFin

\* run_interview when its question loop is left: the first question was
\* asked and recorded, and the stakeholder typed a termination token
InitReview ==
    /\ subject_max_questions = 1
    /\ review_max_passes \in 1..MaxPasses
    /\ subject_question_counts = [i \in Subjects |-> IF i = 0 THEN 1 ELSE 0]
    /\ subjects_completed = [i \in Subjects |-> FALSE]
    /\ current_subject_idx = 0
    /\ pending_subject_index = NoIndex
    /\ active_subject_index = 0
    /\ turns = << InterviewTurn(<<"q">>, << >>, SUBJECT_PLAN[0]) >>
    /\ initial_user_prompt = TRUE
    /\ ipc = "off"
    /\ question_out = <<"q">>
    /\ surfaced = 1
    /\ all_ask = TRUE
    /\ raw_in = << >>
    /\ parse_out = NotRun
    /\ ReviewIdle
    /\ TransportIdle
    /\ rpc = "idle"

\* the first call of _produce_reviewed_specification, with any reviewer
Next ==
    \/ StartRun
    \/ SummaryArrives
    \/ ReviewArrives
    \/ FollowUpAnswered
    \/ DeriveArrives
    \/ ConfirmArrives

Spec == InitReview /\ [][Next]_vars

\* the hosting transport cancels the request (asyncio.wait_for timing out,
\* or the client going away): CancelledError is raised at the await where
\* the agent is suspended, and no handler of the agent catches it
Cancel ==
    /\ rpc \in {"await_summary", "await_derive", "await_confirm"}
    /\ rpc' = "cancelled"
    /\ UNCHANGED << aguiVars, configVars, plannerVars, turns, interviewVars, parseVars,
                    summarization_corrections, approvalVars, summaryVars,
                    loopVars, spec_text_local, summarizeVars, cf, hist, fin >>

\* the first call of _produce_reviewed_specification under a transport that
\* may cancel it
NextCancel ==
    \/ Next
    \/ Cancel

SpecCancel == InitReview /\ [][NextCancel]_vars

\* a summary model that answers with a JSON object, a reviewer that accepts
ObjectSummaryResponses == { r \in SummaryResponses : ParsesAsObject(r) }
AcceptingReviewResponses == { <<"{", "A", ",", "V", "}">> }

DraftArrives == SummaryArrivesFrom(ObjectSummaryResponses)

ReviewAccepts == ReviewArrivesFrom(AcceptingReviewResponses)

InitConfirm ==
    /\ InitReview
    /\ review_max_passes = 1

\* run_interview from the first call of _produce_reviewed_specification to
\* its end, with drafts that are accepted at once, and with callers that
\* finalize the current summary again
NextConfirm ==
    \/ StartRun
    \/ DraftArrives
    \/ ReviewAccepts
    \/ DeriveArrives
    \/ ConfirmArrives
    \/ ClosingFeedback
    \/ FinalizeAgain

SpecConfirm == InitConfirm /\ [][NextConfirm]_vars

-----------------------------------------------------------------------------
(* Claims about the review loop, summarize() and the confirmation steps    *)

\* all subjects present, table valid, no follow-up questions
NoFollowUpNeeded(r) ==
    /\ r.all_subjects_present
    /\ r.table_valid
    /\ r.follow_up_questions = << >>

LoopEnded == hist.ended # "no"

\* C1: one run of _produce_reviewed_specification makes at most
\* review_max_passes + 1 summarize/review cycles: the review of cycle
\* review_max_passes + 1 ends the loop, an accepted review and a review with
\* a repeated fingerprint end it at once, and once the loop has ended the
\* run makes no further cycle.
C1_LoopBounded ==
    [][ /\ hist'.cycles <= review_max_passes + 1
        /\ (rpc = "await_review" /\ rpc' # "raised") =>
              /\ hist.cycles = review_max_passes + 1 => hist'.ended # "no"
              /\ NoFollowUpNeeded(review') => hist'.ended # "no"
              /\ fingerprint(review') \in seen_signatures => hist'.ended # "no"
        /\ (LoopEnded /\ hist'.runs = hist.runs) =>
              /\ hist'.cycles = hist.cycles
              /\ hist'.ended = hist.ended ]_vars

\* the pass cap ended a run with the largest configured number of passes
C1_Witness ==
    /\ review_max_passes = MaxPasses
    /\ hist.cycles = MaxPasses + 1
    /\ hist.ended = "capped"
    /\ rpc = "returned"

\* C5: when a review that requires follow-up has the fingerprint of the
\* review of the previous pass of the run, the loop stops at that pass with
\* review_warnings = outstanding_items() of that review, and the run issues
\* no further summarize call.
C5_RepeatStops ==
    [][ /\ ( /\ rpc = "await_review"
             /\ rpc' # "raised"
             /\ ~NoFollowUpNeeded(review')
             /\ hist.prev_fp = Some(fingerprint(review')) ) =>
                /\ hist'.ended # "no"
                /\ review_warnings' = outstanding_items(review')
                /\ rpc' \notin {"await_summary", "await_answer"}
                /\ hist'.cycles = hist.cycles
        /\ (hist.ended = "repeated" /\ hist'.runs = hist.runs) =>
                /\ hist'.cycles = hist.cycles
                /\ review_warnings' = review_warnings ]_vars

\* the second pass of a run got the review of the first pass again
C5_Witness ==
    /\ hist.ended = "repeated"
    /\ hist.cycles = 2
    /\ hist.prev_fp = Some(fingerprint(review))
    /\ review_warnings = outstanding_items(review)
    /\ review_warnings # << >>
    /\ rpc = "returned"

\* what summarize() does with a completion, but for the text it returns
\* after the last unparsable response
SummarizeProtocol(fallback(_)) ==
    /\ hist'.llm_calls <= SUMMARY_MAX_ATTEMPTS
    /\ rpc = "await_summary" =>
          LET content == hist'.last_response
          IN  /\ ParsesAsObject(content) =>
                    /\ rpc' = "await_review"
                    /\ spec_text_local' =
                           _render_structured_summary(
                               _parse_structured_summary(Strip(content)))
              /\ (~ParsesAsObject(content) /\ hist.llm_calls < 3) =>
                    /\ rpc' = "await_summary"
                    /\ hist'.llm_calls = hist.llm_calls + 1
                    /\ summarization_prompt'.retry_note = RETRY_NOTE
              /\ (~ParsesAsObject(content) /\ hist.llm_calls = 3) =>
                    /\ rpc' = "await_review"
                    /\ spec_text_local' = RawMarkdown(fallback(content))

Verbatim(content) == content

\* C8 as stated: one summarize() call makes at most 3 LLM calls; it returns
\* the rendered document at the first response that parses as a JSON object,
\* sends the retry instruction on every attempt after an unparsable one, and
\* after 3 unparsable responses returns the last response text verbatim.
C8_SummarizeVerbatim == [][SummarizeProtocol(Verbatim)]_vars

\* C8 amended: as above, but after 3 unparsable responses summarize()
\* returns the last response text with its leading and trailing whitespace
\* removed.
C8_SummarizeTrimmed == [][SummarizeProtocol(Strip)]_vars

\* the third response was unparsable and padded; its trimmed text is returned
C8_Witness ==
    /\ rpc = "await_review"
    /\ hist.llm_calls = 3
    /\ hist.last_response = <<"w", " ">>
    /\ spec_text_local = RawMarkdown(<<"w">>)
    /\ latest_summary_data = NoData

FinalizeReturned == rpc \in {"returned", "off"}

\* what a confirmation step that found its kind approved with no new turn
\* leaves behind, but for the processes the rendered document shows
MemoizedReuse(shown(_, _)) ==
    \A k \in Kinds :
        /\ fin.reused[k] =>
              /\ fin.derive[k] = 0
              /\ fin.confirm[k] = 0
              /\ latest_summary_data[ItemsKey(k)] = approved_items[k].value
              /\ latest_summary_data[ProcessesKey(k)] =
                     _serialize_processes(approved_processes[k].value)
              /\ (FinalizeReturned /\ Len(fin.steps) = 2) =>
                    /\ latest_spec_markdown.kind = "document"
                    /\ latest_spec_markdown[ItemsKey(k)] = approved_items[k].value
                    /\ latest_spec_markdown[ProcessesKey(k)] =
                           shown(k, approved_processes[k].value)
        \* the round that stored the approval is the only one of the two runs
        /\ fin.stored[k] => fin.confirm[k] = 1
        /\ (fin.reused[k] /\ hist.prev_stored[k]) => fin.confirm[k] = 0

AsApproved(k, processes) == processes

\* C2 as stated: once a kind is approved, the confirmation step run again
\* with no new turn makes no derivation call and no collaborator call, and
\* the approved items and processes are in the draft and in the rendered
\* document verbatim; the two runs hold exactly one confirmation round.
C2_ReuseVerbatim == MemoizedReuse(AsApproved)

\* what the code does instead (C2): the draft holds the approval verbatim,
\* but the rendered document shows the approved processes as the renderer
\* coerces them: an approved AS-IS process without steps is left out, an
\* approved TO-BE process without steps is shown with the placeholder step,
\* and "|" in a name is shown as "/".
C2_ReuseRendered == MemoizedReuse(CoerceFor)

\* both kinds were approved in one finalization, the AS-IS approval holding a
\* process without steps, and the next finalization reused both
C2_Witness ==
    /\ rpc = "returned"
    /\ fin.reused["as_is"] /\ fin.reused["to_be"]
    /\ hist.prev_stored["as_is"] /\ hist.prev_stored["to_be"]
    /\ \E i \in 1..Len(approved_processes["as_is"].value) :
          approved_processes["as_is"].value[i].happy_path = << >>
    /\ latest_spec_markdown.current_state = approved_items["as_is"].value

AcceptanceProtocol(confirmed) ==
    /\ (rpc = "await_review" /\ rpc' # "raised") =>
          (hist'.ended = "accepted" <=> NoFollowUpNeeded(review'))
    /\ hist'.ended = "accepted" =>
          /\ review_warnings' = << >>
          /\ hist'.cycles = hist.cycles
          /\ hist'.reviews = hist.reviews
          /\ rpc' \in {"await_derive", "await_confirm", "returned"}
          /\ rpc' = "returned" => confirmed'

BothStepsApplied == fin.steps = <<"as_is", "to_be">>

BothStepsAppliedToStructuredDraft ==
    IF latest_summary_data # NoData
    THEN fin.steps = <<"as_is", "to_be">>
    ELSE fin.steps = << >> /\ spec_text_local = latest_spec_markdown
                           /\ spec_text_local.kind = "raw"

\* C10 as stated: a review is accepted exactly when all subjects are
\* present, the table is valid and there is no follow-up question; on
\* acceptance the loop applies the AS-IS and then the TO-BE confirmation to
\* the latest draft, ends with an empty warnings list and makes no further
\* summarize or review call in the run.
C10_AcceptedConfirmsBoth == [][AcceptanceProtocol(BothStepsApplied)]_vars

\* C10 amended: as above, but the two confirmations are applied when the
\* last summarize() call produced a structured summary; when it fell back
\* to the raw response text, the accepted run returns that text and applies
\* no confirmation.
C10_AcceptedFinalizes ==
    [][AcceptanceProtocol(BothStepsAppliedToStructuredDraft)]_vars

\* an accepted draft went through both confirmation rounds
C10_Witness ==
    /\ hist.ended = "accepted"
    /\ rpc = "returned"
    /\ fin.steps = <<"as_is", "to_be">>
    /\ fin.stored["as_is"] /\ fin.stored["to_be"]
    /\ review_warnings = << >>
    /\ hist.cycles = 2


Stalled == hist.ended \in {"repeated", "capped"}

\* what a run whose loop ended stalled holds: the warnings are the last
\* review's outstanding items, the finalization is in progress or has
\* returned, never raised, and once it has returned `delivered` holds
StalledProtocol(delivered) ==
    Stalled =>
        /\ review_warnings = outstanding_items(review)
        /\ rpc \in {"await_derive", "await_confirm", "returned"}
        /\ rpc = "returned" =>
              /\ spec_text_local = latest_spec_markdown
              /\ delivered

\* C11 as stated: when the review loop ends stalled (repeated fingerprint or
\* pass cap), finalization still runs: the AS-IS and the TO-BE confirmation
\* step are executed and a final document is returned, whatever the outcome
\* of the last summarize call was.
C11_StalledConfirmsBoth == StalledProtocol(BothStepsApplied)

\* C11 amended: finalization still runs and returns a document; the two
\* confirmation steps are executed when the last summarize() call produced a
\* structured summary, and when it fell back to the raw response text that
\* text is returned with no confirmation step executed.
C11_StalledFinalizes == StalledProtocol(BothStepsAppliedToStructuredDraft)

\* a run stopped by a repeated fingerprint delivered a document that went
\* through both confirmation steps, with warnings for the operator
C11_Witness ==
    /\ hist.ended = "repeated"
    /\ rpc = "returned"
    /\ fin.steps = <<"as_is", "to_be">>
    /\ spec_text_local.kind = "document"
    /\ review_warnings # << >>


-----------------------------------------------------------------------------
(* The interview: construction and the question loop                      *)

\* state after BusinessAnalystInterviewAgent.__init__
AgentInit ==
    /\ subject_question_counts = [i \in Subjects |-> 0]
    /\ subjects_completed = [i \in Subjects |-> FALSE]
    /\ current_subject_idx = 0
    /\ pending_subject_index = NoIndex
    /\ active_subject_index = NoIndex
    /\ turns = << >>
    /\ initial_user_prompt = FALSE

InitPlanner ==
    /\ subject_max_questions \in 1..MaxCap
    /\ review_max_passes = 1
    /\ AgentInit
    /\ ipc = "new"
    /\ question_out = << >>
    /\ surfaced = 0
    /\ all_ask = TRUE
    /\ raw_in = << >>
    /\ parse_out = NotRun
    /\ ReviewIdle
    /\ TransportIdle
    /\ rpc = "off"

NextPlanner ==
    \/ Kickoff
    \/ DecisionArrives
    \/ RecordQuestion
    \/ NextQuestion
    \/ StopInterview

SpecPlanner == InitPlanner /\ [][NextPlanner]_vars

\* C3: over any sequence of kickoff, record_question and next_question calls,
\* no subject's completed flag goes from true back to false and
\* current_subject_idx never decreases.
C3_PlanMonotonic ==
    [][ /\ \A i \in Subjects : subjects_completed[i] => subjects_completed'[i]
        /\ current_subject_idx' >= current_subject_idx ]_vars

\* a subject completed by the cap and another one completed by an empty
\* decision, with the index moved past both
C3_Witness ==
    /\ \E i \in Subjects :
          subjects_completed[i] /\ subject_question_counts[i] = subject_max_questions
    /\ \E j \in Subjects :
          subjects_completed[j] /\ subject_question_counts[j] < subject_max_questions
    /\ current_subject_idx >= 2

\* C4: when every decision has a non-empty question and subject_complete =
\* false and every returned question is recorded and answered, exactly
\* NumSubjects * subject_max_questions questions are surfaced; only then, and
\* with every subject completed, does the request for a question return None.
C4_ScenarioA ==
    all_ask =>
        /\ surfaced <= NumSubjects * subject_max_questions
        /\ ipc = "await_decision" => surfaced < NumSubjects * subject_max_questions
        /\ ipc = "none" =>
              /\ surfaced = NumSubjects * subject_max_questions
              /\ Len(turns) = NumSubjects * subject_max_questions
              /\ \A i \in Subjects : subjects_completed[i]
              /\ current_subject_idx = NumSubjects

C4_Witness ==
    /\ all_ask
    /\ ipc = "none"
    /\ subject_max_questions = MaxCap
    /\ surfaced = NumSubjects * MaxCap

\* C12: for every subject the number of questions asked for it is at most
\* subject_max_questions, whatever the cap (>= 1) and the model's decisions.
C12_CountsWithinCap ==
    \A i \in Subjects : subject_question_counts[i] <= subject_max_questions

\* the first subject was asked up to the largest cap and completed, and the
\* second one is being asked below the cap
C12_Witness ==
    /\ subject_max_questions = MaxCap
    /\ subject_question_counts[0] = MaxCap
    /\ subjects_completed[0]
    /\ current_subject_idx = 1
    /\ subject_question_counts[1] = 1
    /\ ipc = "asked"

-----------------------------------------------------------------------------
(* The parsers applied to every response text up to MaxLen symbols         *)

ParseAlphabet == {" ", "w", "{", "}", ",", "7", "Q", "T", "A"}

TextsUpTo(alphabet, n) == UNION { [1..k -> alphabet] : k \in 0..n }

ParseDecision ==
    /\ parse_out = NotRun
    /\ parse_out' = _parse_question_decision(raw_in)
    /\ UNCHANGED << aguiVars, configVars, plannerVars, turns, interviewVars, raw_in, reviewVars >>

ParseReview ==
    /\ parse_out = NotRun
    /\ parse_out' = _parse_response(raw_in)
    /\ UNCHANGED << aguiVars, configVars, plannerVars, turns, interviewVars, raw_in, reviewVars >>

InitParse ==
    /\ subject_max_questions = 1
    /\ review_max_passes = 1
    /\ AgentInit
    /\ ipc = "off"
    /\ question_out = << >>
    /\ surfaced = 0
    /\ all_ask = TRUE
    /\ raw_in \in TextsUpTo(ParseAlphabet, MaxLen)
    /\ parse_out = NotRun
    /\ ReviewIdle
    /\ TransportIdle
    /\ rpc = "off"

NextParse ==
    \/ ParseDecision
    \/ ParseReview

SpecParse == InitParse /\ [][NextParse]_vars

\* C6: for every response text, parsing a question decision and parsing a
\* reviewer response return a typed value and never raise.
C6_ParsersNeverRaise == parse_out.kind # "raised"

\* the response as a whole is JSON
IsJson(raw) == JsonLoads(raw).kind # "error"

\* neither the trimmed response nor its first-"{"-to-last-"}" part decodes
NoJsonFound(raw) ==
    LET t == Strip(raw)
        start == Find(t, "{")
        end == RFind(t, "}")
    IN  /\ t # << >>
        /\ JsonLoads(t).kind = "error"
        /\ \/ start = -1
           \/ end <= start
           \/ JsonLoads(Slice(t, start, end)).kind = "error"

ObjectWithoutDecisionKeys(raw) ==
    /\ JsonLoads(raw).kind = "object"
    /\ JsonLoads(raw).members \cap DecisionMembers = {}

DecisionParsed == parse_out # NotRun /\ parse_out.kind # "review"

-----------------------------------------------------------------------------
(* The structured-summary extractor applied to every JSON object payload   *)
(* the member symbols can make                                             *)

RECURSIVE Commas(_)
Commas(members) ==
    IF Len(members) <= 1 THEN members
    ELSE << Head(members), "," >> \o Commas(Tail(members))

\* the response text of the summary model that is the object with members m
ObjectText(m) ==
    LET Held(x) == x \in m
    IN  <<"{">>
        \o Commas(SelectSeq(<<"L", "S", "K", "I", "P", "N", "J", "R", "O">>, Held))
        \o <<"}">>

\* one response handled by summarize(): parsed, normalized and rendered
ExtractSummary ==
    /\ parse_out = NotRun
    /\ LET step == SummarizeAttempt(0, raw_in)
       IN  parse_out' = [kind |-> "summary", data |-> step.data,
                         markdown |-> step.markdown]
    /\ UNCHANGED << aguiVars, configVars, plannerVars, turns, interviewVars, raw_in, reviewVars >>

InitSummary ==
    /\ subject_max_questions = 1
    /\ review_max_passes = 1
    /\ AgentInit
    /\ ipc = "off"
    /\ question_out = << >>
    /\ surfaced = 0
    /\ all_ask = TRUE
    /\ raw_in \in { ObjectText(m) : m \in SUBSET SummaryMembers }
    /\ parse_out = NotRun
    /\ ReviewIdle
    /\ TransportIdle
    /\ rpc = "off"

SpecSummary == InitSummary /\ [][ExtractSummary]_vars

Normalized == parse_out # NotRun /\ parse_out.kind = "summary" /\ parse_out.data # NoData

\* every list field in `lists` has an entry and every string field in
\* `strings` is not empty, in the normalized summary of any object payload
NormalizationTotal(lists, strings) ==
    Normalized =>
        /\ \A f \in lists : Len(parse_out.data[f]) >= 1
        /\ \A f \in strings : parse_out.data[f] # << >>

PlaceholderLists ==
    {"current_state", "future_state", "personas", "non_functional_requirements",
     "assumptions", "risks", "open_issues", "functional_requirements"}

PlaceholderStrings ==
    {"title", "project_overview", "project_objective", "scope_in_scope",
     "scope_out_of_scope", "functional_overview"}

\* C13 as stated: for any JSON object payload, including {}, the normalized
\* summary has at least one entry in every list field (the two process lists
\* included) and a non-empty value in every string field.
C13_EveryFieldFilled ==
    NormalizationTotal(PlaceholderLists \cup {"current_processes", "future_processes"},
                       PlaceholderStrings \cup {"scope_overview"})

\* C13 amended: for any JSON object payload, including {}, the normalized
\* summary has at least one entry in every list field other than
\* current_processes and future_processes, and a non-empty value in every
\* string field other than scope_overview.
C13_PlaceholderFieldsFilled ==
    NormalizationTotal(PlaceholderLists, PlaceholderStrings)

\* the payload {} was normalized: placeholders in the lists, no process, and
\* no scope overview
C13_Witness ==
    /\ Normalized
    /\ raw_in = <<"{", "}">>
    /\ parse_out.data.risks = << PendingClarification >>
    /\ parse_out.data.current_processes = << >>
    /\ parse_out.data.scope_overview = << >>

Shows(section, text) == \E i \in 1..Len(section) : section[i] = text

\* C15: when the response is a JSON object holding only a title, the
\* rendered document shows "Pending clarification." in each of its sections
\* 1 to 10 (the personas section as the description of its one persona) and
\* section 11, the Functional Requirements table, has exactly one row, whose
\* ID is FR-1.
C15_TitleOnlyDocument ==
    (Normalized /\ raw_in = ObjectText({"L"})) =>
        LET doc == parse_out.markdown
        IN  /\ doc.kind = "document"
            /\ \A s \in {"overview", "scope", "current_state", "future_state",
                         "functional_overview", "non_functional_requirements",
                         "assumptions", "risks", "open_issues"} :
                  Shows(doc[s], PendingClarification)
            /\ Len(doc.personas) = 1
            /\ doc.personas[1].description = PendingClarification
            /\ doc.current_processes = << >>
            /\ doc.future_processes = << >>
            /\ Len(doc.requirements_table) = 1
            /\ doc.requirements_table[1].id = <<"FR-", "1">>

\* the title-only payload was rendered under its title
C15_Witness ==
    /\ Normalized
    /\ raw_in = <<"{", "L", "}">>
    /\ parse_out.markdown.header = <<"## Functional Specification: ", "X">>
    /\ Len(parse_out.markdown.requirements_table) = 1

-----------------------------------------------------------------------------
(* SpecificationReview.fingerprint applied to two review values            *)

\* review values: every field takes two values or more, the list of missing
\* subjects with repeated and reordered entries
ReviewValues ==
  LET A_SUBJECT == ReviewerSubjects[1]
      B_SUBJECT == ReviewerSubjects[2]
  IN
    { [SpecificationReview(all, missing, valid, tfeedback, followups, feedback)
          EXCEPT !.language = language] :
        all \in BOOLEAN,
        missing \in {<< >>, <<A_SUBJECT>>, <<B_SUBJECT>>, <<A_SUBJECT, A_SUBJECT>>,
                     <<A_SUBJECT, B_SUBJECT>>, <<B_SUBJECT, A_SUBJECT>>},
        valid \in BOOLEAN,
        tfeedback \in {<< >>, <<"b">>},
        followups \in {<< >>, << FollowUpQuestion(<<"u">>, <<"1">>, None) >>},
        feedback \in {<<"f">>, fallback_feedback_success},
        language \in {"en", "es"} }

Fingerprints ==
    /\ parse_out = NotRun
    /\ parse_out' = [kind |-> "fingerprints",
                     first |-> fingerprint(raw_in[1]),
                     second |-> fingerprint(raw_in[2])]
    /\ UNCHANGED << aguiVars, configVars, plannerVars, turns, interviewVars, raw_in, reviewVars >>

InitFingerprint ==
    /\ subject_max_questions = 1
    /\ review_max_passes = 1
    /\ AgentInit
    /\ ipc = "off"
    /\ question_out = << >>
    /\ surfaced = 0
    /\ all_ask = TRUE
    /\ raw_in \in ReviewValues \X ReviewValues
    /\ parse_out = NotRun
    /\ ReviewIdle
    /\ TransportIdle
    /\ rpc = "off"

SpecFingerprint == InitFingerprint /\ [][Fingerprints]_vars

Fingerprinted == parse_out # NotRun /\ parse_out.kind = "fingerprints"

SameFingerprint == parse_out.first = parse_out.second

\* the two values agree on every field in `fields`
AgreeOn(fields) == \A f \in fields : raw_in[1][f] = raw_in[2][f]

OutcomeFields ==
    {"all_subjects_present", "table_valid", "table_feedback",
     "follow_up_questions", "feedback_for_interviewer"}

\* C14 as stated: two review values with the same field content have the
\* same fingerprint, and two values that differ in any field (for example
\* one more missing_subjects entry) have different fingerprints.
C14_FingerprintOfAllFields ==
    Fingerprinted =>
        (SameFingerprint <=> AgreeOn(OutcomeFields \cup {"missing_subjects", "language"}))

\* C14 amended: two review values have the same fingerprint exactly when
\* they agree on all_subjects_present, table_valid, table_feedback,
\* follow_up_questions and feedback_for_interviewer and name the same set of
\* missing subjects; the language, and the order and repetition of the
\* missing subjects, do not change the fingerprint.
C14_FingerprintOfOutcome ==
    Fingerprinted =>
        (SameFingerprint <=>
            /\ AgreeOn(OutcomeFields)
            /\ SetOf(raw_in[1].missing_subjects) = SetOf(raw_in[2].missing_subjects))

\* two reviews that differ by one more missing subject were told apart
C14_Witness ==
    /\ Fingerprinted
    /\ AgreeOn(OutcomeFields \cup {"language"})
    /\ raw_in[1].missing_subjects = << ReviewerSubjects[1] >>
    /\ raw_in[2].missing_subjects = << ReviewerSubjects[1], ReviewerSubjects[2] >>
    /\ ~SameFingerprint

-----------------------------------------------------------------------------
(* Cancellation                                                            *)

\* C16: when summarize(), finalize_current_summary() or a confirmation step
\* is cancelled at the await of an LLM call or of a collaborator call, no
\* partial state has been committed: the latest structured summary, the
\* latest markdown and both approval records are as they were when the
\* cancelled operation started.
C16_CancelCommitsNothing ==
    rpc = "cancelled" =>
        LET before == IF hist.before # NoEntry THEN hist.before ELSE fin.before
        IN  /\ latest_summary_data = before.data
            /\ latest_spec_markdown = before.markdown
            /\ \A k \in Kinds : Approval(k) = before.approvals[k]

\* summarize() was cancelled while it awaited the completion of its second
\* attempt, with the draft of the cycle before still the latest markdown
C16_Witness ==
    /\ rpc = "cancelled"
    /\ hist.before # NoEntry
    /\ attempts = 1
    /\ hist.before.data # NoData
    /\ latest_summary_data = NoData
    /\ latest_spec_markdown = hist.before.markdown

-----------------------------------------------------------------------------
(* The requests of one conversation thread                                 *)

InitRunStream ==
    /\ subject_max_questions = 1
    /\ review_max_passes = 1
    /\ AgentInit
    /\ ipc = "off"
    /\ question_out = << >>
    /\ surfaced = 0
    /\ all_ask = TRUE
    /\ raw_in = << >>
    /\ parse_out = NotRun
    /\ ReviewIdle
    /\ TransportIdle
    /\ rpc = "off"

NextRunStream ==
    \E r \in Requests :
        \/ RunStream(r)
        \/ KickoffReturns(r)
        \/ SessionStored(r)
        \/ HandleReturns(r)

SpecRunStream == InitRunStream /\ [][NextRunStream]_vars

\* C17: for one conversation thread at most one session is ever created,
\* and a session has at most one LLM call outstanding at a time, whatever
\* the overlap of the run_stream requests on the thread.
C17_OneSessionOneCall ==
    /\ Len(sessions) <= 1
    /\ \A s \in 1..Len(sessions) : sessions[s].llm_calls <= 1

\* two requests that overlapped have each created a session for the thread
C17_Witness ==
    /\ Len(sessions) = 2
    /\ \A r \in {1, 2} : requests[r].pc = "done"
    /\ requests[1].session_state # requests[2].session_state

-----------------------------------------------------------------------------
(* export_spec and persist_transcript, with the faults of the file system, *)
(* of the PDF exporter and of Redis                                        *)

\* what each external operation does: "none" is no Redis client configured
Faults ==
    [markdown_write : {"ok", "OSError"},
     pdf_export : {"ok", "PDFExportError"},
     archive_write : {"ok", "OSError"},
     redis : {"none", "ok", "RedisError"}]

export_spec(spec_text, faults) ==
    IF faults.markdown_write # "ok" THEN Raised(faults.markdown_write)
    ELSE [kind |-> "artifacts",
          markdown_path |-> <<"functional_spec.md">>,
          pdf_path |-> IF faults.pdf_export = "ok" THEN <<"functional_spec.pdf">>
                       ELSE None]

\* TranscriptRepository.save_transcript: the archive lines are appended, then
\* the record is mirrored to Redis when a client exists
save_transcript(faults) ==
    IF faults.archive_write # "ok" THEN Raised(faults.archive_write)
    ELSE [kind |-> "record", record_id |-> <<"sess-">>]

\* run_interview after the loop: artifacts = agent.export_spec(spec_text)
ExportSpec ==
    /\ parse_out = NotRun
    /\ parse_out' = [kind |-> "exported",
                     artifacts |-> export_spec(raw_in.spec_text, raw_in.faults)]
    /\ UNCHANGED << aguiVars, configVars, plannerVars, turns, interviewVars, raw_in, reviewVars >>

\* record_id = agent.persist_transcript(...), when export_spec has returned
PersistTranscript ==
    /\ parse_out.kind = "exported"
    /\ parse_out.artifacts.kind # "raised"
    /\ parse_out' = [kind |-> "persisted",
                     artifacts |-> parse_out.artifacts,
                     record |-> save_transcript(raw_in.faults)]
    /\ UNCHANGED << aguiVars, configVars, plannerVars, turns, interviewVars, raw_in, reviewVars >>

InitExport ==
    /\ subject_max_questions = 1
    /\ review_max_passes = 1
    /\ AgentInit
    /\ ipc = "off"
    /\ question_out = << >>
    /\ surfaced = 0
    /\ all_ask = TRUE
    /\ raw_in \in [spec_text : {<< >>, <<"d">>, <<"d", "e">>}, faults : Faults]
    /\ parse_out = NotRun
    /\ ReviewIdle
    /\ TransportIdle
    /\ rpc = "off"

NextExport ==
    \/ ExportSpec
    \/ PersistTranscript

SpecExport == InitExport /\ [][NextExport]_vars

\* C18: a failure of the PDF render, of a disk write (markdown file,
\* transcript archive) or of the Redis mirror never aborts the interview:
\* export_spec and persist_transcript return normally, and a persistence
\* failure shows up as no record id.
C18_FailuresDegrade ==
    /\ parse_out.kind = "exported" => parse_out.artifacts.kind # "raised"
    /\ parse_out.kind = "persisted" =>
          /\ parse_out.record.kind # "raised"
          /\ (raw_in.faults.archive_write # "ok" \/ raw_in.faults.redis = "RedisError")
                => parse_out.record.record_id = None

\* the PDF render failed and export_spec returned the markdown path alone
C18_Witness ==
    /\ parse_out.kind = "exported"
    /\ raw_in.faults.pdf_export = "PDFExportError"
    /\ parse_out.artifacts.kind = "artifacts"
    /\ parse_out.artifacts.pdf_path = None

-----------------------------------------------------------------------------
(* MAFChatClient.complete: the messages sent to the provider               *)

ChatMessage(role, content) == [role |-> role, content |-> content]

\* mutant: the input message is appended itself, not a copy of it
MergeLoopAliasing(objects, merged, i) ==
    IF merged # << >> /\ objects[merged[Len(merged)]].role = objects[i].role
    THEN [objects |-> [objects EXCEPT ![merged[Len(merged)]].content =
                          Strip(@ \o <<"\n", "\n">> \o objects[i].content)],
          merged |-> merged]
    ELSE [objects |-> objects, merged |-> Append(merged, i)]

\* one iteration of the loop of _merge_consecutive_roles on message i:
\* `objects` are the ChatMessage objects alive, the caller's first, and
\* `merged` lists the objects of the result
MergeLoop(objects, merged, i) ==
    IF merged # << >> /\ objects[merged[Len(merged)]].role = objects[i].role
    THEN [objects |-> [objects EXCEPT ![merged[Len(merged)]].content =
                          Strip(@ \o <<"\n", "\n">> \o objects[i].content)],
          merged |-> merged]
    ELSE [objects |-> Append(objects, ChatMessage(objects[i].role, objects[i].content)),
          merged |-> Append(merged, Len(objects) + 1)]

RECURSIVE MergeFrom(_, _, _, _)
MergeFrom(objects, merged, i, n) ==
    IF i > n THEN [objects |-> objects, merged |-> merged]
    ELSE LET step == MergeLoop(objects, merged, i)
         IN  MergeFrom(step.objects, step.merged, i + 1, n)

_merge_consecutive_roles(messages) ==
    MergeFrom(messages, << >>, 1, Len(messages))

\* complete(messages) up to its await: the payload handed to the provider,
\* and the caller's messages as the call leaves them
Complete ==
    /\ parse_out = NotRun
    /\ LET result == _merge_consecutive_roles(raw_in)
       IN  parse_out' =
               [kind |-> "sent",
                payload |-> [k \in 1..Len(result.merged) |->
                                [role |-> result.objects[result.merged[k]].role,
                                 text |-> result.objects[result.merged[k]].content]],
                messages |-> SubSeq(result.objects, 1, Len(raw_in))]
    /\ UNCHANGED << aguiVars, configVars, plannerVars, turns, interviewVars, raw_in, reviewVars >>

\* the message sequences of up to MaxMessages messages
MessageSequences ==
    LET Messages == { ChatMessage(role, content) :
                        role \in {"user", "assistant"},
                        content \in { <<"a">>, <<"b", " ">>, <<" ">> } }
    IN  UNION { [1..n -> Messages] : n \in 0..MaxMessages }

InitTransport ==
    /\ subject_max_questions = 1
    /\ review_max_passes = 1
    /\ AgentInit
    /\ ipc = "off"
    /\ question_out = << >>
    /\ surfaced = 0
    /\ all_ask = TRUE
    /\ raw_in \in MessageSequences
    /\ parse_out = NotRun
    /\ ReviewIdle
    /\ TransportIdle
    /\ rpc = "off"

SpecTransport == InitTransport /\ [][Complete]_vars

Sent == parse_out # NotRun /\ parse_out.kind = "sent"

RECURSIVE Flat(_)
Flat(texts) == IF texts = << >> THEN << >> ELSE Head(texts) \o Flat(Tail(texts))

NotNewline(c) == c # "\n"

InputContents == [i \in 1..Len(raw_in) |-> raw_in[i].content]

SentTexts == [k \in 1..Len(parse_out.payload) |-> parse_out.payload[k].text]

\* adjacent sent messages differ in role, and the caller's messages are as
\* they were
AlternatesAndLeavesInput ==
    /\ \A k \in 1..(Len(parse_out.payload) - 1) :
          parse_out.payload[k].role # parse_out.payload[k + 1].role
    /\ parse_out.messages = raw_in

\* C19 as stated: the sequence sent has no two adjacent messages with the
\* same role, keeps the content of all input messages in their original
\* order (every character of it, the merged contents two newlines apart),
\* and leaves the input message objects unmodified.
C19_MergeKeepsContent ==
    Sent =>
        /\ AlternatesAndLeavesInput
        /\ SelectSeq(Flat(SentTexts), NotNewline) = Flat(InputContents)

\* C19 amended: the sequence sent has no two adjacent messages with the
\* same role, keeps the content of all input messages in their original
\* order except for whitespace (each merge strips the whitespace at both
\* ends of the merged text), sends verbatim the content of every message
\* when no two adjacent input messages share a role, and leaves the input
\* message objects unmodified.
C19_MergeKeepsText ==
    Sent =>
        /\ AlternatesAndLeavesInput
        /\ SelectSeq(Flat(SentTexts), NoSpace) = SelectSeq(Flat(InputContents), NoSpace)
        /\ (\A i \in 1..(Len(raw_in) - 1) : raw_in[i].role # raw_in[i + 1].role)
              => SentTexts = InputContents

\* three messages, the first two of the user, were sent as two, and the
\* merged text lost the whitespace that ended the second
C19_Witness ==
    /\ Sent
    /\ Len(raw_in) = 3
    /\ raw_in[1] = ChatMessage("user", <<"a">>)
    /\ raw_in[2] = ChatMessage("user", <<"b", " ">>)
    /\ raw_in[3].role = "assistant"
    /\ Len(parse_out.payload) = 2
    /\ parse_out.payload[1].text = <<"a", "\n", "\n", "b">>

-----------------------------------------------------------------------------
(* InterviewTranscript.as_messages                                         *)

\* self._prompt_pack.kickoff, the value kickoff() gives initial_user_prompt
KickoffPrompt == <<"kickoff">>

RECURSIVE TurnMessages(_)
TurnMessages(transcript_turns) ==
    IF transcript_turns = << >> THEN << >>
    ELSE LET turn == Head(transcript_turns)
             question_content ==
                 IF turn.subject # << >>
                 THEN <<"[Subject: ">> \o turn.subject \o <<"] ">> \o turn.question
                 ELSE turn.question
         IN  << ChatMessage("assistant", question_content),
                ChatMessage("user", turn.answer) >>
             \o TurnMessages(Tail(transcript_turns))

\* mutant: the initial user prompt is left out
AsMessagesWithoutPrompt(transcript_turns, prompt_set) ==
    TurnMessages(transcript_turns)

as_messages(transcript_turns, prompt_set) ==
    (IF prompt_set THEN << ChatMessage("user", KickoffPrompt) >> ELSE << >>)
    \o TurnMessages(transcript_turns)

\* a caller flattens the transcript (as _generate_next_question and
\* summarize do to build their payload)
AsMessages ==
    /\ parse_out' = [kind |-> "messages",
                     value |-> as_messages(turns, initial_user_prompt)]
    /\ UNCHANGED << aguiVars, configVars, plannerVars, turns, interviewVars, raw_in, reviewVars >>

NextTranscript ==
    \/ NextPlanner
    \/ AsMessages

\* an interview that asks one question per subject
InitTranscript ==
    /\ InitPlanner
    /\ subject_max_questions = 1

SpecTranscript == InitTranscript /\ [][NextTranscript]_vars

\* `messages` is the optional initial user prompt followed, for each turn in
\* order, by an assistant message with the question (after its subject
\* label, when the turn has a subject) and a user message with the answer
Flattens(messages, transcript_turns, prompt_set) ==
    LET first == IF prompt_set THEN 1 ELSE 0
    IN  /\ Len(messages) = first + 2 * Len(transcript_turns)
        /\ prompt_set => messages[1] = ChatMessage("user", KickoffPrompt)
        /\ \A k \in 1..Len(transcript_turns) :
              LET asked == messages[first + 2 * k - 1]
                  turn == transcript_turns[k]
              IN  /\ asked.role = "assistant"
                  /\ Len(asked.content) >= Len(turn.question)
                  /\ SubSeq(asked.content,
                            Len(asked.content) - Len(turn.question) + 1,
                            Len(asked.content)) = turn.question
                  /\ turn.subject = << >> => asked.content = turn.question
                  /\ messages[first + 2 * k] = ChatMessage("user", turn.answer)

\* C20: as_messages() changes neither the transcript nor any other state,
\* what it returns is the optional initial user prompt followed, for each
\* turn in order, by an assistant message with the question and a user
\* message with the answer, and a call that follows a call with no mutation
\* of the transcript in between returns an equal sequence.
C20_AsMessagesPure ==
    [][ /\ parse_out' # parse_out =>
              /\ UNCHANGED << aguiVars, configVars, plannerVars, turns, interviewVars,
                              raw_in, reviewVars >>
              /\ parse_out'.kind = "messages"
              /\ Flattens(parse_out'.value, turns, initial_user_prompt)
        /\ ( /\ parse_out.kind = "messages"
             /\ parse_out'.kind = "messages"
             /\ Flattens(parse_out.value, turns, initial_user_prompt)
             /\ UNCHANGED << turns, initial_user_prompt >> ) =>
                 parse_out'.value = parse_out.value ]_vars

\* a transcript with the initial prompt and two turns, the first one
\* answered, was flattened into five messages
C20_Witness ==
    /\ parse_out.kind = "messages"
    /\ initial_user_prompt
    /\ Len(turns) = 2
    /\ turns[1].answer # << >>
    /\ Len(parse_out.value) = 5
    /\ parse_out.value = as_messages(turns, initial_user_prompt)

\* ---------------------------------------------------------------------------
\* C21 as stated: in every reachable state a subject whose question counter
\* equals subject_max_questions is completed.
C21_CappedIsCompleted ==
    \A i \in Subjects :
        subject_question_counts[i] = subject_max_questions
            => subjects_completed[i]

\* C21: a subject whose question counter equals subject_max_questions is
\* completed in every reachable state, except while it is the active subject,
\* that is while the question that brought the counter to the cap still waits
\* for _handle_post_answer.
C21_CappedIsCompletedOnceAnswered ==
    \A i \in Subjects :
        (subject_question_counts[i] = subject_max_questions
         /\ active_subject_index # i)
            => subjects_completed[i]

\* subject 0 reached the cap with its second question, the answer has been
\* handled and the planner moved on although the model wanted to continue
C21_Witness ==
    /\ subject_max_questions = MaxCap
    /\ subject_question_counts[0] = MaxCap
    /\ subjects_completed[0]
    /\ active_subject_index = NoIndex
    /\ current_subject_idx = 1
    /\ ipc = "await_decision"
    /\ Len(turns) = MaxCap
    /\ turns[MaxCap].answer # << >>

\* ---------------------------------------------------------------------------
\* one more call of _generate_next_question from planner p, up to its return
\* or its next await, when the model answers with `decision`
GenerateAgain(p, decision) ==
    LET q == GenerateUntilAwait(p)
    IN  IF q.cur >= NumSubjects THEN q ELSE GenerateAfterDecision(q, decision)

\* C22 as stated: when a question has been returned and is not yet recorded,
\* asking again leaves the question counters and current_subject_idx as the
\* first call left them, whatever the model decides.
C22_RepeatedCallsChangeNothing ==
    ipc = "returned" =>
        \A raw \in DecisionResponses :
            LET decision == _parse_question_decision(raw)
            IN  decision.kind # "raised" =>
                    LET p == GenerateAgain(Planner, decision)
                    IN  /\ p.counts = subject_question_counts
                        /\ p.cur = current_subject_idx

\* C22: the subject selection of _generate_next_question is idempotent: once
\* a call has selected a subject and waits for the model's decision, or has
\* found no subject left, entering the selection again targets the same
\* subject and changes no counter, no completion flag and not
\* current_subject_idx.
C22_SelectionIsIdempotent ==
    ipc \in {"await_decision", "none"} =>
        /\ GenerateUntilAwait(Planner) = Planner
        /\ (ipc = "none") = (current_subject_idx >= NumSubjects)

\* the selection skipped subjects 0 and 1, both at their cap, and waits for a
\* decision on the last subject
C22_Witness ==
    /\ ipc = "await_decision"
    /\ subject_max_questions = 1
    /\ current_subject_idx = NumSubjects - 1
    /\ subject_question_counts[0] = 1
    /\ subject_question_counts[1] = 1
    /\ subjects_completed[1]
    /\ Len(turns) = 2
    /\ GenerateUntilAwait(Planner) = Planner

\* ---------------------------------------------------------------------------
\* C23: a decision is consumed either by surfacing its non-empty, stripped
\* question or, when its question is empty, without surfacing anything: then
\* the current subject is marked complete, no counter changes, nothing is
\* returned or left pending, and the same call moves to the next uncompleted
\* subject and asks the model again, or returns None when no subject is left.
C23_EmptyDecisionCompletesSubject ==
    [][ ipc = "await_decision" =>
          /\ ipc' = "returned" =>
                (question_out' # << >> /\ Strip(question_out') = question_out')
          /\ ipc' \in {"await_decision", "none"} =>
                /\ subjects_completed' =
                       [subjects_completed EXCEPT ![current_subject_idx] = TRUE]
                /\ subject_question_counts' = subject_question_counts
                /\ surfaced' = surfaced
                /\ question_out' = question_out
                /\ pending_subject_index' = pending_subject_index
                /\ turns' = turns
                /\ current_subject_idx' =
                       NextOpenIndex(subjects_completed', current_subject_idx + 1)
                /\ (ipc' = "none") = (current_subject_idx' >= NumSubjects)
                /\ (ipc' = "await_decision") =>
                       ~subjects_completed'[current_subject_idx']
      ]_vars

\* the model ended subject 0 with an empty question after one of the two
\* questions allowed, and the call went on to ask about subject 1
C23_Witness ==
    /\ ipc = "await_decision"
    /\ subject_max_questions = 2
    /\ subject_question_counts[0] = 1
    /\ subjects_completed[0]
    /\ current_subject_idx = 1
    /\ subject_question_counts[1] = 0
    /\ surfaced = 1
    /\ Len(turns) = 1
    /\ turns[1].answer # << >>

\* ---------------------------------------------------------------------------
\* the review loop with structured drafts and one pass more than MaxPasses
\* allowed, so that a reviewer can alternate between two feedback states and
\* still have a pass left
InitOscillate ==
    /\ subject_max_questions = 1
    /\ review_max_passes = MaxPasses + 1
    /\ subject_question_counts = [i \in Subjects |-> IF i = 0 THEN 1 ELSE 0]
    /\ subjects_completed = [i \in Subjects |-> FALSE]
    /\ current_subject_idx = 0
    /\ pending_subject_index = NoIndex
    /\ active_subject_index = 0
    /\ turns = << InterviewTurn(<<"q">>, << >>, SUBJECT_PLAN[0]) >>
    /\ initial_user_prompt = TRUE
    /\ ipc = "off"
    /\ question_out = <<"q">>
    /\ surfaced = 1
    /\ all_ask = TRUE
    /\ raw_in = << >>
    /\ parse_out = NotRun
    /\ ReviewIdle
    /\ TransportIdle
    /\ rpc = "idle"

NextOscillate ==
    \/ StartRun
    \/ DraftArrives
    \/ ReviewArrives
    \/ FollowUpAnswered
    \/ DeriveArrives
    \/ ConfirmArrives

SpecOscillate == InitOscillate /\ [][NextOscillate]_vars

\* the review just received differs from the review of the pass before
DiffersFromPreviousPass ==
    /\ review # NotRun
    /\ hist.prev_fp # Absent
    /\ hist.prev_fp # Some(fingerprint(review))

\* C24 as stated: a run whose reviewer never gives the same feedback twice in
\* a row is not stopped as a repeat before review_max_passes is exhausted.
C24_OscillationRunsToTheCap ==
    (hist.ended = "repeated" /\ DiffersFromPreviousPass)
        => attempt_count >= review_max_passes

\* C24: stall detection compares a review with every earlier review of the
\* run: a follow-up-requiring review whose fingerprint was seen in any earlier
\* pass ends the loop as a repeat, without a further pass, so a reviewer that
\* alternates between two feedback states is stopped at its third review.
C24_SeenFingerprintStops ==
    [][ (/\ rpc = "await_review"
         /\ rpc' # "raised"
         /\ requires_follow_up(review')
         /\ fingerprint(review') \in seen_signatures)
            => /\ hist'.ended = "repeated"
               /\ attempt_count' = attempt_count
               /\ seen_signatures' = seen_signatures
               /\ review_warnings' = outstanding_items(review')
               /\ rpc' # "await_answer"
      ]_vars

\* the third review of a run repeats the first one, not the second, and the
\* loop has ended with a pass to spare
C24_Witness ==
    /\ hist.ended = "repeated"
    /\ DiffersFromPreviousPass
    /\ attempt_count = 2
    /\ attempt_count < review_max_passes
    /\ Cardinality(seen_signatures) = 2
    /\ fingerprint(review) \in seen_signatures
    /\ hist.reviews = 3

\* ---------------------------------------------------------------------------
\* a confirmation step waits for its derivation and had an approval at entry
DerivingWithApproval ==
    /\ rpc = "await_derive"
    /\ cf.approved_items.some
    /\ cf.approved_processes.some

\* the candidates the derivation in progress can return
Candidates ==
    { d \in { derive(cf.kind, outcome, cf.fallback_items, cf.fallback_processes) :
                  outcome \in DeriveOutcomes } : d.kind # "raised" }

SameContentAsApproved(d) ==
    /\ _items_equivalent(cf.approved_items.value, d.items)
    /\ _processes_equivalent(cf.approved_processes.value, d.processes)

CandidateSignature(d) ==
    _compose_process_summary_signature(Len(turns), d.items, d.processes)

\* C25 as stated, in the case it names: an approval exists, the turn-count
\* fast path did not apply, and the derivation returns the approved content
\* again; then the candidate's signature equals the stored one, so that the
\* signature test (step 3) is what reuses the approval.
C25_SameContentSameSignature ==
    DerivingWithApproval =>
        \A d \in Candidates :
            SameContentAsApproved(d) => signature[cf.kind] = Some(CandidateSignature(d))

\* C25: the signature test (step 3) never succeeds: when it is reached with
\* an approval, the stored signature carries the confirmed turn count, the
\* transcript has another length, and so no candidate has the stored
\* signature; a candidate with the approved content is reused by the
\* equivalence test (step 4) instead.
C25_SignatureTestNeverSucceeds ==
    DerivingWithApproval =>
        /\ signature[cf.kind].some
        /\ signature[cf.kind].value[1] = confirmed_turns[cf.kind]
        /\ Len(turns) # confirmed_turns[cf.kind]
        /\ \A d \in Candidates : signature[cf.kind] # Some(CandidateSignature(d))

\* the AS-IS step of a second finalization waits for its derivation, the
\* approval dates from before the closing turn, and the derivation can
\* return the approved content again
C25_Witness ==
    /\ DerivingWithApproval
    /\ cf.kind = "as_is"
    /\ hist.runs = 2
    /\ Len(turns) > confirmed_turns["as_is"]
    /\ \E d \in Candidates : SameContentAsApproved(d)

\* ---------------------------------------------------------------------------
\* C26: when the derivation of a step that had an approval at entry (so the
\* transcript has gained turns since) returns, the step either fails, or
\* calls the collaborator with a candidate that differs from the approval,
\* or (the candidate has the approved content) writes the approved
\* content into the draft, calls no collaborator, keeps the approved items
\* and processes, and sets the confirmed turn count and the signature's turn
\* count to the current transcript length, so that the turn-count fast path
\* applies to the next finalization without new turns.
C26_EquivalentDerivationRefreshes ==
    [][ DerivingWithApproval =>
          LET kind == cf.kind
              items == cf.approved_items.value
              processes == cf.approved_processes.value
          IN  /\ Len(turns) > confirmed_turns[kind]
              /\ \/ fin'.failed[kind]
                 \/ /\ rpc' = "await_confirm"
                    /\ cf'.kind = kind
                    /\ fin'.confirm[kind] = 1
                    /\ ~SameContentAsApproved([items |-> cf'.derived_items,
                                               processes |-> cf'.derived_processes])
                    /\ UNCHANGED approvalVars
                 \/ /\ ~fin'.failed[kind]
                    /\ fin'.confirm[kind] = 0
                    /\ ~fin'.stored[kind]
                    /\ fin'.entry[kind] = NoEntry
                    /\ latest_summary_data'[ItemsKey(kind)] = items
                    /\ latest_summary_data'[ProcessesKey(kind)] =
                           _serialize_processes(processes)
                    /\ approved_items'[kind] = Some(items)
                    /\ approved_processes'[kind] = Some(processes)
                    /\ confirmed_turns'[kind] = Len(turns)
                    /\ signature'[kind] =
                           Some(_compose_process_summary_signature(
                                    Len(turns), items, processes))
                    /\ Len(turns') = confirmed_turns'[kind]
      ]_vars

\* the second finalization re-derived the approved AS-IS content after the
\* closing turn: no collaborator call, and the approval now carries the
\* current turn count
C26_Witness ==
    /\ hist.runs = 2
    /\ rpc = "returned"
    /\ fin.derive["as_is"] = 1
    /\ fin.confirm["as_is"] = 0
    /\ ~fin.failed["as_is"]
    /\ ~fin.reused["as_is"]
    /\ ~fin.stored["as_is"]
    /\ approved_items["as_is"].some
    /\ confirmed_turns["as_is"] = Len(turns)
    /\ signature["as_is"].value[1] = Len(turns)
    /\ latest_summary_data[ItemsKey("as_is")] = approved_items["as_is"].value

\* ---------------------------------------------------------------------------
\* the confirmation state of `kind` as __init__ leaves it
NoApproval(kind) ==
    /\ approved_items[kind] = Absent
    /\ approved_processes[kind] = Absent
    /\ confirmed_turns[kind] = 0
    /\ signature[kind] = Absent

HasApproval(kind) ==
    /\ approved_items[kind].some
    /\ approved_processes[kind].some
    /\ signature[kind].some

\* the step in progress is of `kind` and its collaborator returns a review
ConfirmationRoundCompletes(kind) ==
    /\ rpc = "await_confirm"
    /\ cf.kind = kind
    /\ fin'.stored[kind]
    /\ ~fin'.failed[kind]

\* C27 as stated: the confirmation state of a kind is null until the first
\* confirmation round completes and changes only when a confirmation round
\* with the collaborator completes.
C27_OnlyConfirmationWrites ==
    [][ \A kind \in Kinds :
          /\ NoApproval(kind) \/ HasApproval(kind)
          /\ Approval(kind)' # Approval(kind) => ConfirmationRoundCompletes(kind)
      ]_vars

\* C27: the confirmation state of a kind is null until the first
\* confirmation round completes; the approved items and processes change
\* only when a confirmation round with the collaborator completes; the
\* confirmed turn count and the signature change then, and also when the
\* equivalence fallback reuses an existing approval after its derivation,
\* which sets them to the current transcript length and to the signature of
\* the unchanged approval at that length. No other step writes any of them.
C27_ConfirmationStateWrites ==
    [][ \A kind \in Kinds :
          /\ NoApproval(kind) \/ HasApproval(kind)
          /\ (approved_items'[kind] # approved_items[kind]
              \/ approved_processes'[kind] # approved_processes[kind])
                 => ConfirmationRoundCompletes(kind)
          /\ (confirmed_turns'[kind] # confirmed_turns[kind]
              \/ signature'[kind] # signature[kind])
                 => \/ ConfirmationRoundCompletes(kind)
                    \/ /\ DerivingWithApproval
                       /\ cf.kind = kind
                       /\ HasApproval(kind)
                       /\ fin'.confirm[kind] = 0
                       /\ ~fin'.failed[kind]
                       /\ confirmed_turns'[kind] = Len(turns)
                       /\ signature'[kind] =
                              Some(_compose_process_summary_signature(
                                       Len(turns), approved_items[kind].value,
                                       approved_processes[kind].value))
      ]_vars

\* in one finalization after the closing turn, the AS-IS approval was
\* refreshed by the equivalence fallback and the TO-BE approval was stored by
\* a confirmation round
C27_Witness ==
    /\ hist.runs = 2
    /\ rpc = "returned"
    /\ fin.steps = <<"as_is", "to_be">>
    /\ fin.derive["as_is"] = 1
    /\ fin.confirm["as_is"] = 0
    /\ ~fin.failed["as_is"]
    /\ ~fin.stored["as_is"]
    /\ HasApproval("as_is")
    /\ confirmed_turns["as_is"] = Len(turns)
    /\ fin.confirm["to_be"] = 1
    /\ fin.stored["to_be"]
    /\ HasApproval("to_be")

\* ---------------------------------------------------------------------------
\* C28: a review that sends the loop into another pass has its corrections
\* in the agent's list before the follow-up questions are asked, hence before
\* the next summarize call starts; and every prompt a summarize call of the
\* run sends, first attempt or retry, carries every correction the reviews of
\* the earlier passes of the run called for.
C28_PromptCarriesCorrections ==
    [][ /\ (rpc = "await_review" /\ rpc' = "await_answer") =>
              /\ CorrectionsOf(review') \subseteq SetOf(summarization_corrections')
              /\ hist'.notes = hist.notes \cup CorrectionsOf(review')
              /\ hist'.cycles = hist.cycles
              /\ summarization_prompt' = summarization_prompt
        /\ rpc' = "await_summary" =>
              /\ hist'.notes \subseteq SetOf(summarization_prompt'.corrections)
              /\ summarization_prompt'.corrections = summarization_corrections'
      ]_vars

\* the third summarize call of a run is in progress and its prompt carries
\* the two different corrections of the first two reviews
C28_Witness ==
    /\ rpc = "await_summary"
    /\ hist.runs = 1
    /\ hist.cycles = 3
    /\ Cardinality(hist.notes) >= 2
    /\ hist.notes \subseteq SetOf(summarization_prompt.corrections)
    /\ review # NotRun
    /\ ~(hist.notes \subseteq CorrectionsOf(review))

\* ---------------------------------------------------------------------------
\* the review loop with structured drafts and a reviewer that may also list
\* two follow-up questions
FollowUpReviewResponses ==
    ReviewResponses \cup { <<"{", "A", ",", "V", ",", "W", "}">>,
                           <<"{", "M", ",", "W", "}">> }

ReviewArrivesWithFollowUps == ReviewArrivesFrom(FollowUpReviewResponses)

NextFollowUp ==
    \/ StartRun
    \/ DraftArrives
    \/ ReviewArrivesWithFollowUps
    \/ FollowUpAnswered
    \/ DeriveArrives
    \/ ConfirmArrives

SpecFollowUp == InitReview /\ [][NextFollowUp]_vars

\* the questions a non-terminal pass asks for review r
QuestionsOf(r) ==
    IF r.follow_up_questions = << >> THEN << GenericFollowUp >>
    ELSE r.follow_up_questions

\* the subject a follow-up's turn is tagged with: the follow-up's subject, in
\* the plan's spelling when it names a subject of the plan, "" without one
TagOf(follow_up) ==
    IF Truthy(follow_up.subject) THEN _normalize_subject_name(follow_up.subject)
    ELSE << >>

\* the last n turns of the transcript answer the questions qs, in order
AnswersTo(transcript, qs) ==
    LET n == Len(qs)
        base == Len(transcript) - n
    IN  /\ base >= 0
        /\ \A i \in 1..n :
              /\ transcript[base + i].question = qs[i].question
              /\ transcript[base + i].subject = TagOf(qs[i])
              /\ transcript[base + i].answer \in Answers

\* C29: a review that sends the loop into another pass queues its follow-up
\* questions, or the one generic question when it lists none; each answer
\* appends exactly one turn with the question, the answer and the follow-up's
\* subject; no other step of the loop touches the transcript; and when the
\* next summarize call starts, the transcript ends with exactly one turn per
\* queued question, so it is longer than at the summarize call before.
C29_OneTurnPerFollowUp ==
    [][ /\ (rpc = "await_review" /\ rpc' = "await_answer") =>
              /\ follow_ups' = QuestionsOf(review')
              /\ Len(follow_ups') >= 1
              /\ turns' = turns
        /\ rpc = "await_answer" =>
              /\ Len(turns') = Len(turns) + 1
              /\ SubSeq(turns', 1, Len(turns)) = turns
              /\ AnswersTo(turns', << Head(follow_ups) >>)
              /\ follow_ups' = Tail(follow_ups)
              /\ rpc' = IF follow_ups' = << >> THEN "await_summary" ELSE "await_answer"
              /\ Len(turns') + Len(follow_ups')
                     = hist.turns_before + Len(QuestionsOf(review))
        /\ (rpc = "await_answer" /\ rpc' = "await_summary") =>
              /\ AnswersTo(turns', QuestionsOf(review))
              /\ Len(turns') = hist.turns_before + Len(QuestionsOf(review))
              /\ Len(turns') > hist.turns_before
              /\ hist'.cycles = hist.cycles + 1
        /\ rpc # "await_answer" => turns' = turns
      ]_vars

\* the second summarize call of a run starts after a review with two
\* follow-up questions: two turns were appended, in order, the first tagged
\* with subject 1 and the second with no subject
C29_Witness ==
    /\ rpc = "await_summary"
    /\ hist.cycles = 2
    /\ hist.llm_calls = 1
    /\ review # NotRun
    /\ Len(review.follow_up_questions) = 2
    /\ Len(turns) = hist.turns_before + 2
    /\ AnswersTo(turns, QuestionsOf(review))
    /\ turns[Len(turns) - 1].subject = SUBJECT_PLAN[1]
    /\ turns[Len(turns)].subject = << >>

\* ---------------------------------------------------------------------------
\* the lines a stakeholder can type at the terminal as an answer: input() is
\* passed to next_question as it is, so the line may be empty
TypedAnswers == Answers \cup { << >> }

NextQuestionTyped == NextQuestionFrom(TypedAnswers)

\* record_question(closing_prompt, answer=reply) by the driver, once the
\* question loop is left and the draft was shown
RecordClosingPrompt ==
    /\ ipc \in {"off", "none"}
    /\ \E reply \in ClosingReplies :
         turns' = Append(turns,
                         InterviewTurn(CLOSING_PROMPT, reply,
                                       IF pending_subject_index # NoIndex
                                       THEN SUBJECT_PLAN[pending_subject_index]
                                       ELSE << >>))
    /\ pending_subject_index' = NoIndex
    /\ ipc' = "closed"
    /\ UNCHANGED << aguiVars, configVars, subject_question_counts, subjects_completed,
                    current_subject_idx, active_subject_index,
                    initial_user_prompt, question_out, surfaced, all_ask,
                    parseVars, reviewVars >>

\* the transcript over a whole interview: the question loop, its end by a
\* termination token or by the plan running out, and the closing prompt
NextAppend ==
    \/ Kickoff
    \/ DecisionArrives
    \/ RecordQuestion
    \/ NextQuestionTyped
    \/ StopInterview
    \/ RecordClosingPrompt

SpecAppend == InitTranscript /\ [][NextAppend]_vars

-----------------------------------------------------------------------------
(* C31: names and steps of the processes of a normalized summary           *)

HasStep(process) == process.happy_path # << >> \/ process.unhappy_path # << >>

ProcessLists == {"current_processes", "future_processes"}

KindOfList(field) == IF field = "current_processes" THEN "as_is" ELSE "to_be"

StepLess(processes) == {i \in 1..Len(processes) : ~HasStep(processes[i])}

\* C31 as stated: every process in the normalized summary's
\* current_processes and future_processes has a non-empty name and at least
\* one happy-path or unhappy-path step.
C31_NormalizedProcessesHaveSteps ==
    Normalized =>
        \A field \in ProcessLists :
            \A i \in 1..Len(parse_out.data[field]) :
                /\ parse_out.data[field][i].name # << >>
                /\ HasStep(parse_out.data[field][i])

\* C31 amended: every process in the normalized summary's current_processes
\* and future_processes has a non-empty name, and a named entry without steps
\* is kept there with empty step lists; once the list is coerced for a
\* confirmation step or for rendering, every process has a non-empty name and
\* at least one step: entries with neither kind of step are dropped for
\* current processes and receive the placeholder happy step for future
\* processes.
C31_CoercedProcessesHaveSteps ==
    Normalized =>
        \A field \in ProcessLists :
            LET processes == parse_out.data[field]
                coerced == CoerceFor(KindOfList(field), processes)
            IN  /\ \A i \in 1..Len(processes) : processes[i].name # << >>
                /\ \A i \in 1..Len(coerced) :
                       coerced[i].name # << >> /\ HasStep(coerced[i])
                /\ field = "current_processes" =>
                       Len(coerced) = Len(processes) - Cardinality(StepLess(processes))
                /\ field = "future_processes" =>
                       /\ Len(coerced) = Len(processes)
                       /\ \A i \in StepLess(processes) :
                              coerced[i].happy_path = << FutureFallbackStep >>

\* a payload with a named current process and a named future process, both
\* without steps, was normalized: both are in the summary with empty step
\* lists; coercion drops the first and gives the second the placeholder step
C31_Witness ==
    /\ Normalized
    /\ raw_in = ObjectText({"N", "O"})
    /\ StepLess(parse_out.data.current_processes) = {1}
    /\ StepLess(parse_out.data.future_processes) = {1}
    /\ CoerceFor("as_is", parse_out.data.current_processes) = << >>
    /\ Len(CoerceFor("to_be", parse_out.data.future_processes)) = 1


-----------------------------------------------------------------------------
(* C32: the conversation excerpt handed to the AS-IS / TO-BE derivation    *)

DEFAULT_MAX_TURNS == 6
DEFAULT_MAX_CHARS == 1500

\* the transcripts of this specification have up to MaxTurns turns
MaxTurns == 7

\* "\n[...]"
TruncationMarker == <<"\n", "[", ".", ".", ".", "]">>

\* "\n".join(lines)
RECURSIVE JoinLines(_)
JoinLines(lines) ==
    IF lines = << >> THEN << >>
    ELSE IF Len(lines) = 1 THEN Head(lines)
    ELSE Head(lines) \o <<"\n">> \o JoinLines(Tail(lines))

\* the "Q: ..." and "A: ..." lines of the selected turns
RECURSIVE ExcerptLines(_)
ExcerptLines(selected_turns) ==
    IF selected_turns = << >> THEN << >>
    ELSE LET question == Strip(Head(selected_turns).question)
             answer == Strip(Head(selected_turns).answer)
         IN  (IF question # << >> THEN << <<"Q", ":", " ">> \o question >> ELSE << >>)
             \o (IF answer # << >> THEN << <<"A", ":", " ">> \o answer >> ELSE << >>)
             \o ExcerptLines(Tail(selected_turns))

\* turns[-max_turns:]
LastTurns(transcript, max_turns) ==
    SubSeq(transcript,
           IF Len(transcript) > max_turns THEN Len(transcript) - max_turns + 1 ELSE 1,
           Len(transcript))

\* the excerpt before it is cut
FullExcerpt(transcript, max_turns) ==
    Strip(JoinLines(ExcerptLines(LastTurns(transcript, max_turns))))

\* mutant: the cut leaves room for the whole marker
ConversationExcerptWithRoom(transcript, max_turns, max_chars) ==
    LET excerpt == FullExcerpt(transcript, max_turns)
    IN  IF Len(excerpt) <= max_chars THEN excerpt
        ELSE RStrip(SubSeq(excerpt, 1, max_chars - Len(TruncationMarker)))
             \o TruncationMarker

\* _conversation_excerpt(max_turns, max_chars) on a transcript
_conversation_excerpt(transcript, max_turns, max_chars) ==
    IF transcript = << >> THEN << >>
    ELSE LET excerpt == FullExcerpt(transcript, max_turns)
         IN  IF Len(excerpt) <= max_chars THEN excerpt
             ELSE RStrip(SubSeq(excerpt, 1, max_chars - 5)) \o TruncationMarker

\* an answer of n characters
Fill(n) == [i \in 1..n |-> "a"]

\* a turn with a one-character answer (9 characters in the excerpt), a turn
\* whose two lines take max_chars - 1 characters, and a turn whose two lines
\* end right before the place of the cut
ExcerptTurns ==
    { InterviewTurn(<<"q">>, <<"a">>, << >>),
      InterviewTurn(<<"q">>, Fill(DEFAULT_MAX_CHARS - 9), << >>),
      InterviewTurn(<<"q">>, Fill(DEFAULT_MAX_CHARS - 14), << >>) }

\* one more turn is in the transcript
TurnRecorded ==
    /\ parse_out = NotRun
    /\ Len(turns) < MaxTurns
    /\ \E turn \in ExcerptTurns : turns' = Append(turns, turn)
    /\ UNCHANGED << aguiVars, configVars, plannerVars, interviewVars, parseVars,
                    reviewVars >>

\* conversation_excerpt = self._conversation_excerpt(), as both confirmation
\* steps call it
ConversationExcerpt ==
    /\ parse_out = NotRun
    /\ parse_out' = [kind |-> "excerpt",
                     text |-> _conversation_excerpt(turns, DEFAULT_MAX_TURNS,
                                                    DEFAULT_MAX_CHARS)]
    /\ UNCHANGED << aguiVars, configVars, plannerVars, turns, interviewVars, raw_in,
                    reviewVars >>

InitExcerpt ==
    /\ subject_max_questions = 1
    /\ review_max_passes = 1
    /\ AgentInit
    /\ ipc = "off"
    /\ question_out = << >>
    /\ surfaced = 0
    /\ all_ask = TRUE
    /\ raw_in = << >>
    /\ parse_out = NotRun
    /\ ReviewIdle
    /\ TransportIdle
    /\ rpc = "off"

NextExcerpt ==
    \/ TurnRecorded
    \/ ConversationExcerpt

SpecExcerpt == InitExcerpt /\ [][NextExcerpt]_vars

Excerpted == parse_out # NotRun /\ parse_out.kind = "excerpt"

\* the number of "Q: " lines of a text
QuestionLines(text) == Cardinality({i \in 1..Len(text) : text[i] = "Q"})

WasCut == Len(FullExcerpt(turns, DEFAULT_MAX_TURNS)) > DEFAULT_MAX_CHARS

EndsWithMarker(text) ==
    /\ Len(text) >= Len(TruncationMarker)
    /\ SubSeq(text, Len(text) - Len(TruncationMarker) + 1, Len(text)) = TruncationMarker

\* C32: the excerpt is built from at most the last 6 transcript turns and is
\* never longer than 1500 characters; when it had to be cut it ends with the
\* marker [...].
C32_ExcerptIsBounded ==
    Excerpted =>
        /\ QuestionLines(parse_out.text) <= DEFAULT_MAX_TURNS
        /\ parse_out.text = _conversation_excerpt(LastTurns(turns, DEFAULT_MAX_TURNS),
                                                  DEFAULT_MAX_TURNS, DEFAULT_MAX_CHARS)
        /\ Len(parse_out.text) <= DEFAULT_MAX_CHARS
        /\ WasCut => EndsWithMarker(parse_out.text)

\* the parts of C32 the code keeps: at most the last 6 turns, the marker at
\* the end of a cut excerpt, and never more than one character over the cap
C32_ExcerptWithinOneOfTheCap ==
    Excerpted =>
        /\ QuestionLines(parse_out.text) <= DEFAULT_MAX_TURNS
        /\ Len(parse_out.text) <= DEFAULT_MAX_CHARS + 1
        /\ WasCut => EndsWithMarker(parse_out.text)

\* a cut excerpt of 1501 characters: the cut did not fall on white space
C32_Witness ==
    /\ Excerpted
    /\ WasCut
    /\ EndsWithMarker(parse_out.text)
    /\ Len(parse_out.text) = DEFAULT_MAX_CHARS + 1


-----------------------------------------------------------------------------
(* C33: the retained-session list after _unregister_session(keep_lookup)   *)

InitRegistry ==
    /\ subject_max_questions = 1
    /\ review_max_passes = 1
    /\ AgentInit
    /\ ipc = "off"
    /\ question_out = << >>
    /\ surfaced = 0
    /\ all_ask = TRUE
    /\ raw_in = << >>
    /\ parse_out = NotRun
    /\ ReviewIdle
    /\ TransportIdle
    /\ rpc = "off"

NextRegistry ==
    \/ \E t \in Threads : _register_session(t)
    \/ \E t \in Threads : _unregister_session(t)
    \/ TrimIteration
    \/ TrimReturns
    \/ \E t \in Threads : ThreadCollected(t)
    \/ \E t \in Threads : SessionArchived(t)

\* a call that has started keeps running: the loop of
\* _trim_retained_sessions is synchronous code
SpecRegistry ==
    /\ InitRegistry
    /\ [][NextRegistry]_vars
    /\ WF_vars(TrimIteration)
    /\ WF_vars(TrimReturns)

Trimming == registry.pc = "trimming"

\* C33: after any sequence of _register_session and
\* _unregister_session(keep_lookup=True) calls, each unregister call returns,
\* and it returns with at most 8 keys in the retained-session list; an
\* evicted key was the oldest retained key, and the thread-to-record mapping
\* of an evicted session that has an archived record id is kept.
C33_UnregisterReturnsTrimmed ==
    /\ Trimming ~> ~Trimming
    /\ [](~Trimming => Len(registry.retained_session_keys) <= _retained_session_limit)
    /\ [](\A key \in registry.evicted :
              IsThreadKey(key) /\ SessionOfKey(key) \in registry.archived
                  => key \in registry.thread_record_index)

\* the safety part of C33: whenever no trim is running the retained-session
\* list has at most 8 keys
C33_RetainedListBounded ==
    ~Trimming => Len(registry.retained_session_keys) <= _retained_session_limit

\* the loop of _trim_retained_sessions is running with more than 8 retained
\* keys, each of a session whose thread is still alive: every iteration moves
\* the oldest key to the back and the list never gets shorter
C33_Witness ==
    /\ Trimming
    /\ Len(registry.retained_session_keys) > _retained_session_limit
    /\ \A key \in SetOf(registry.retained_session_keys) :
           /\ key \in registry.session_lookup
           /\ SessionOfKey(key) \in registry.live


-----------------------------------------------------------------------------
(* C34: the completed subjects are those before current_subject_index      *)

\* the plan index of the subject a turn was asked on
SubjectIndexOf(turn) == CHOOSE i \in Subjects : SUBJECT_PLAN[i] = turn.subject

\* C34: in every reachable state all subjects with an index below
\* current_subject_index are completed and no subject with an index above it
\* is completed; hence whenever question generation returns None every
\* subject of the plan is completed, and the subjects of successively
\* surfaced questions follow plan order.
C34_CompletedBelowCurrentOnly ==
    /\ \A i \in Subjects :
           /\ i < current_subject_idx => subjects_completed[i]
           /\ i > current_subject_idx => ~subjects_completed[i]
    /\ ipc = "none" => \A i \in Subjects : subjects_completed[i]
    /\ \A m, n \in 1..Len(turns) :
           m < n => SubjectIndexOf(turns[m]) <= SubjectIndexOf(turns[n])

\* question generation returned None after questions on two subjects were
\* surfaced and recorded
C34_Witness ==
    /\ ipc = "none"
    /\ current_subject_idx = NumSubjects
    /\ \E m, n \in 1..Len(turns) : SubjectIndexOf(turns[m]) < SubjectIndexOf(turns[n])


-----------------------------------------------------------------------------
(* C35: the work of one kickoff / next_question call                       *)

OpenSubjects == {i \in Subjects : ~subjects_completed[i]}

\* C35: every kickoff / next_question call makes at most one LLM call per
\* subject that is not yet completed (a decision that does not end the call
\* completes the subject it was asked for, and the call goes on with a later
\* subject), a question it returns is never empty, and over a whole
\* interview at most NumSubjects x subject_max_questions questions are
\* surfaced.
C35_BoundedQuestionGeneration ==
    /\ [][ ipc = "await_decision" /\ ipc' \in {"await_decision", "none"} =>
              /\ current_subject_idx \in OpenSubjects
              /\ OpenSubjects' = OpenSubjects \ {current_subject_idx}
              /\ current_subject_idx' > current_subject_idx ]_vars
    /\ [](ipc = "await_decision" => current_subject_idx \in OpenSubjects)
    /\ [](ipc = "returned" => question_out # << >> /\ Strip(question_out) = question_out)
    /\ [](surfaced <= NumSubjects * subject_max_questions)

\* kickoff made two LLM calls: the first decision had no question and
\* completed subject 0, the second returned a question on subject 1
C35_Witness ==
    /\ ipc = "returned"
    /\ turns = << >>
    /\ surfaced = 1
    /\ current_subject_idx = 1
    /\ subjects_completed[0]
    /\ subject_question_counts[0] = 0
    /\ question_out # << >>


-----------------------------------------------------------------------------
(* C36: a question that comes with subject_complete = true                 *)

\* C36: a decision with a non-empty question is surfaced and counted, also
\* when it says subject_complete = true, and it does not complete the
\* subject: a subject is completed, and stops being the current one, only by
\* a decision with an empty question or, outside a decision, when its counter
\* has reached the cap.
C36_QuestionNeverCompletesSubject ==
    [][ /\ ipc = "await_decision" /\ ipc' = "returned" =>
              /\ surfaced' = surfaced + 1
              /\ subject_question_counts' =
                     [subject_question_counts EXCEPT ![current_subject_idx] = @ + 1]
              /\ subjects_completed' = subjects_completed
              /\ current_subject_idx' = current_subject_idx
              /\ active_subject_index' = current_subject_idx
        /\ \A i \in Subjects :
              ~subjects_completed[i] /\ subjects_completed'[i] =>
                  /\ i = current_subject_idx
                  /\ \/ ipc = "await_decision" /\ surfaced' = surfaced
                     \/ /\ ipc # "await_decision"
                        /\ subject_question_counts[i] >= subject_max_questions
        /\ current_subject_idx' # current_subject_idx =>
              subjects_completed'[current_subject_idx] ]_vars

\* the first decision of an interview carried a question and
\* subject_complete = true: the question was returned and counted, and
\* subject 0 is still the current, uncompleted subject below its cap
C36_Witness ==
    /\ ipc = "returned"
    /\ ~all_ask
    /\ surfaced = 1
    /\ turns = << >>
    /\ current_subject_idx = 0
    /\ ~subjects_completed[0]
    /\ subject_question_counts[0] = 1
    /\ subject_max_questions > 1


-----------------------------------------------------------------------------
(* C37: the phases of a BusinessAnalystSession                             *)

InitSession ==
    /\ subject_max_questions = 1
    /\ review_max_passes = 1
    /\ AgentInit
    /\ ipc = "off"
    /\ question_out = << >>
    /\ surfaced = 0
    /\ all_ask = TRUE
    /\ raw_in = << >>
    /\ parse_out = NotRun
    /\ ReviewIdle
    /\ TransportIdle
    /\ rpc = "off"

NextSession ==
    \/ SessionKickoff
    \/ \E c \in SessionCalls, user_text \in SessionTexts :
           HandleUserMessageStarts(c, user_text)
    \/ \E c \in SessionCalls : HandleUserMessageResumes(c)

SpecSession == InitSession /\ [][NextSession]_vars

\* the fields of the session and the length of its agent's transcript
SessionState ==
    << bas.completed, bas.awaiting_closing_feedback, bas.pending_spec_text,
       bas.final_message, bas.archived_record_id, bas.turns >>

\* a call with a whitespace-only text starts (and returns) in this step
BlankMessageHandled ==
    \E c \in SessionCalls :
        /\ bas.calls[c].pc = "new"
        /\ bas'.calls[c].pc = "done"
        /\ Strip(bas'.calls[c].text) = << >>

PhasesForward ==
    /\ bas.completed => bas'.completed
    /\ ~(bas'.completed /\ bas'.awaiting_closing_feedback)
    /\ ~bas'.next_question_after_interview
    /\ BlankMessageHandled => SessionState' = SessionState

\* C37: a BusinessAnalystSession only moves forward through its phases:
\* completed never goes back to false, completed and
\* awaiting_closing_feedback are never both true, next_question is never
\* called on the agent once the session is awaiting closing feedback or
\* completed, and a whitespace-only user message changes no state.
C37_PhasesOnlyForward == [][PhasesForward]_vars

\* C37 for a session whose handle_user_message calls never overlapped
C37_PhasesForwardWhenSerialized == [][~bas'.overlapped => PhasesForward]_vars

\* a completed session is awaiting closing feedback again: the summarize()
\* of an earlier _finalize_session returned after the closing feedback of
\* another call had completed the session
C37_Witness ==
    /\ bas.completed
    /\ bas.awaiting_closing_feedback
    /\ bas.final_message = "draft"


-----------------------------------------------------------------------------
(* C38: the warnings at the end of a run, for every review the parser of   *)
(* the reviewer's response can return                                      *)

\* the reviewer's responses: no content, text without JSON, and the object
\* with each set of members
EveryReviewResponse ==
    { <<" ">>, <<"w">> }
    \cup { <<"{">> \o Commas(SelectSeq(<<"A", "V", "M", "B", "F", "U", "G", "W">>,
                                       LAMBDA x : x \in m)) \o <<"}">> :
           m \in SUBSET ReviewMembers }

ReviewArrivesWithAnyReview == ReviewArrivesFrom(EveryReviewResponse)

InitWarnings ==
    /\ InitReview
    /\ review_max_passes = 1

\* one run up to the end of its loop: the finalization that follows the loop
\* does not write the warnings
NextWarnings ==
    \/ StartRun
    \/ DraftArrives
    \/ ReviewArrivesWithAnyReview
    \/ FollowUpAnswered

SpecWarnings == InitWarnings /\ [][NextWarnings]_vars

\* C38: at the end of a run of the review loop the warnings list is empty if
\* the run ended by acceptance and non-empty if it ended STALLED, for every
\* review value the parser of the reviewer's response can produce.
C38_WarningsTellTheOutcome ==
    /\ hist.ended = "accepted" => review_warnings = << >>
    /\ Stalled => review_warnings # << >>

\* a run ended STALLED on a review that names no missing subject, has a valid
\* table and asks no follow-up question: the warnings are the feedback text
C38_Witness ==
    /\ Stalled
    /\ review.missing_subjects = << >>
    /\ review.table_valid
    /\ review.follow_up_questions = << >>
    /\ review_warnings = << review.feedback_for_interviewer >>


-----------------------------------------------------------------------------
(* C39: the four fields of a stored approval agree                         *)

\* C39: whenever an approval of a kind is stored, the stored signature equals
\* the signature computed from the stored confirmed turn count, approved
\* items and approved processes; in particular its turn-count component
\* equals the stored confirmed turn count.  This holds in every state, also
\* while the agent is suspended at an await, so the four fields are written
\* with no suspension point between them.
C39_StoredSignatureMatches ==
    \A kind \in Kinds :
        IF approved_items[kind].some \/ approved_processes[kind].some
           \/ signature[kind].some
        THEN /\ HasApproval(kind)
             /\ signature[kind].value =
                    _compose_process_summary_signature(confirmed_turns[kind],
                                                       approved_items[kind].value,
                                                       approved_processes[kind].value)
             /\ signature[kind].value[1] = confirmed_turns[kind]
        ELSE confirmed_turns[kind] = 0

\* the TO-BE step of a second finalization is suspended at its derivation
\* call after the AS-IS step wrote its approval for the closing turn: the
\* AS-IS approval carries the new turn count, the TO-BE approval the old one
C39_Witness ==
    /\ rpc = "await_derive"
    /\ cf.kind = "to_be"
    /\ HasApproval("as_is")
    /\ HasApproval("to_be")
    /\ confirmed_turns["as_is"] = Len(turns)
    /\ confirmed_turns["to_be"] < Len(turns)
    /\ signature["as_is"].value[1] = Len(turns)


-----------------------------------------------------------------------------
(* C40: the accumulated summarization corrections                          *)

\* run_interview with its closing prompt: a first run of the review loop and,
\* when the stakeholder gives closing feedback, a second one.  The summary
\* model never returns JSON, so that every draft is the raw text of the third
\* attempt and finalization returns it at once: the confirmation steps
\* neither read nor write the list of corrections.
RawDraftArrives == SummaryArrivesFrom({ <<"w", " ">> })

NextCorrections ==
    \/ StartRun
    \/ RawDraftArrives
    \/ ReviewArrives
    \/ FollowUpAnswered
    \/ ClosingFeedback

SpecCorrections == InitReview /\ [][NextCorrections]_vars

NoNoteTwice(corrections) ==
    \A i, j \in 1..Len(corrections) : corrections[i] = corrections[j] => i = j

\* C40: the list of accumulated summarization corrections never holds the
\* same note twice, grows only through apply_review_feedback, and is emptied
\* only when a review is accepted; after a STALLED run its notes are still
\* included in the prompts of later summarize calls of the same agent.
C40_CorrectionsAccumulate ==
    [][ /\ NoNoteTwice(summarization_corrections')
        /\ summarization_corrections' # summarization_corrections =>
              \/ /\ rpc = "await_review"
                 /\ rpc' = "await_answer"
                 /\ summarization_corrections' =
                        apply_review_feedback(summarization_corrections, review')
                 /\ SubSeq(summarization_corrections', 1,
                           Len(summarization_corrections)) = summarization_corrections
              \/ /\ rpc = "await_review"
                 /\ hist'.ended = "accepted"
                 /\ summarization_corrections' = << >>
        /\ rpc' = "await_summary" =>
              summarization_prompt'.corrections = summarization_corrections'
        /\ (Stalled /\ hist'.runs = hist.runs + 1) =>
              /\ rpc' = "await_summary"
              /\ summarization_prompt'.corrections = summarization_corrections
      ]_vars

\* the first summarize call of a second run is in progress, no review of
\* that run has arrived yet, and its prompt carries the notes of the first
\* run, which ended STALLED (an accepted review would have emptied the list)
C40_Witness ==
    /\ rpc = "await_summary"
    /\ hist.runs = 2
    /\ review = NotRun
    /\ Len(summarization_corrections) >= 2
    /\ summarization_prompt.corrections = summarization_corrections

=============================================================================
